---------------------------- MODULE Spec2Model ----------------------------
(***************************************************************************)
(* BriefRooms: the RSS digest generator (fetch_first_entries), the hotbar  *)
(* ticker scripts and the comment widget scripts, as state machines.       *)
(*                                                                         *)
(* Text is modelled as a sequence of characters (one-character strings;    *)
(* a letter with a diacritic is written as a named token such as "a,"),    *)
(* so that trim, split, slice, startsWith, toLowerCase and the regular     *)
(* expression tests are computed on the characters as the code does.       *)
(***************************************************************************)
EXTENDS Integers, Sequences, FiniteSets, TLC

(***************************************************************************)
(* Bounds of the model.                                                    *)
(***************************************************************************)
MaxUrls == 2
MaxLimit == 3
MaxKeys == 2
MaxPosts == 2

(***************************************************************************)
(* Constants of the program.                                               *)
(***************************************************************************)
PerBucket == 2
TitleMinLen == 3
MaxShownP003 == 6
LIMIT_PER_SECTION == 6
MAX_LEN == 2000

(***************************************************************************)
(* State.  The three programs share nothing; each specification below runs  *)
(* one of them and leaves the variables of the other two as they are.       *)
(***************************************************************************)
\* fetch_first_entries
VARIABLES
  urls,      \* what feedparser.parse returns for each URL of the list, in order
  limit,     \* the limit argument
  items,     \* the local list items
  u,         \* index of the URL the outer loop is at
  e,         \* index of the entry the inner loop is at
  fpc,       \* position in the function: "url", "entry", "after", "ret", "done"
  reads,     \* number of feedparser.parse calls made
  examined,  \* number of entries the inner loop has looked at
  result     \* the returned list

feedVars == <<urls, limit, items, u, e, fpc, reads, examined, result>>

\* the hotbar script of a page
VARIABLES
  script,  \* which script the page runs
  isEN,    \* location.pathname.startsWith('/en/')
  hpc,     \* position of the fetch chain: "fetch", "then1", "then2", "catch", "done"
  res,     \* the Response the fetch resolved with
  raw,     \* the value res.json() resolved with
  dom      \* the widget's part of the document

hotVars == <<script, isEN, hpc, res, raw, dom>>

\* the comment widget of a page
VARIABLES
  widget,        \* which widget script the page runs
  textInp,       \* textInp.value
  nickInp,       \* nickInp.value
  errText,       \* err.textContent; the element is hidden exactly when it is ""
  sendDisabled,  \* sendBtn.disabled
  storage,       \* localStorage: br_nick and br_uid ("" and <<>> stand for no entry)
  list,          \* the content of #brc-list
  posts,         \* number of POST requests sent so far
  lastPost,      \* the last POST request sent
  loads,         \* the load() calls whose GET is outstanding
  nextLoad,      \* number of load() calls made so far
  cpc,           \* the submit handler: "idle", "post" (awaiting the POST), "resp"
                 \* (the POST has completed), "load" (awaiting load())
  postRes,       \* the outcome of the POST the handler is looking at
  listBy         \* the load() call that wrote the list last (0: none yet)

comVars ==
  <<widget, textInp, nickInp, errText, sendDisabled, storage, list, posts, lastPost,
    loads, nextLoad, cpc, postRes, listBy>>

\* the batch job main() of the digest generator
VARIABLES
  mpc,           \* position in main(): "idle", "loop", "call", "built", "exit"
  sec,           \* index of the section the loop over FEEDS is at
  sectionsData,  \* sections_data, in insertion order
  allSkipped,    \* for each stored section: did every one of its feeds fail or come back empty
  html,          \* the lines of the page build_html returned
  written        \* the content of the output file

mainVars == <<mpc, sec, sectionsData, allSkipped, html, written>>

\* the second hotbar script of a page that carries two (src/unnamed/part_005)
VARIABLES
  hpcB,  \* position of the second script's fetch chain
  resB,  \* the Response its fetch resolved with
  rawB   \* the value its res.json() resolved with

pageVars == <<hpcB, resB, rawB>>

vars == <<feedVars, hotVars, comVars, mainVars, pageVars>>

(***************************************************************************)
(* String primitives (Python str / JavaScript String).                     *)
(***************************************************************************)
WS == {" ", "\t", "\n"}

Min2(a, b) == IF a <= b THEN a ELSE b
Max2(a, b) == IF a >= b THEN a ELSE b

RECURSIVE TrimStart(_)
TrimStart(s) ==
  IF s = <<>> THEN <<>>
  ELSE IF Head(s) \in WS THEN TrimStart(Tail(s)) ELSE s

RECURSIVE TrimEnd(_)
TrimEnd(s) ==
  IF s = <<>> THEN <<>>
  ELSE IF s[Len(s)] \in WS THEN TrimEnd(SubSeq(s, 1, Len(s) - 1)) ELSE s

\* str.strip() / String.prototype.trim()
Trim(s) == TrimEnd(TrimStart(s))

\* seq[:n] of Python, for any integer n
PySliceTo(s, n) ==
  IF n >= 0 THEN SubSeq(s, 1, Min2(n, Len(s)))
  ELSE SubSeq(s, 1, Max2(Len(s) + n, 0))

(***************************************************************************)
(* RSS digest generator: fetch_first_entries(urls, limit).                 *)
(***************************************************************************)

Absent == <<"<no attribute>">>

\* getattr(obj, name, default)
Getattr(obj, name, default) == IF obj[name] = Absent THEN default ELSE obj[name]

T_A == <<"A", "l", "p", "h", "a">>
T_B == <<"B", "e", "t", "a">>
T_C == <<"C">>
L_A == <<"h", ":", "/", "a">>
L_B == <<"h", ":", "/", "b">>
L_C == <<"h", ":", "/", "c">>

EntryA == [title |-> T_A, link |-> L_A]
EntryB == [title |-> <<" ">> \o T_B \o <<"\n">>, link |-> <<"\t">> \o L_B \o <<" ">>]
EntryC == [title |-> T_C, link |-> L_C]
EntryBlankTitle == [title |-> <<" ", " ">>, link |-> L_A]
EntryNoTitle == [title |-> Absent, link |-> L_B]
EntryNoLink == [title |-> T_A, link |-> Absent]
EntryEmptyLink == [title |-> T_B, link |-> <<>>]

\* A parsed feed: hasEntries is FALSE when the parse result has no entries attribute.
FeedFailed == [hasEntries |-> FALSE, entries |-> <<>>]
FeedEmpty == [hasEntries |-> TRUE, entries |-> <<>>]
FeedThree == [hasEntries |-> TRUE, entries |-> <<EntryA, EntryB, EntryC>>]
FeedMixed == [hasEntries |-> TRUE, entries |-> <<EntryBlankTitle, EntryC, EntryNoLink, EntryA>>]
FeedInvalid == [hasEntries |-> TRUE, entries |-> <<EntryNoTitle, EntryEmptyLink>>]
FeedOne == [hasEntries |-> TRUE, entries |-> <<EntryB>>]

FeedPool == {FeedFailed, FeedEmpty, FeedThree, FeedMixed, FeedInvalid, FeedOne}

SeqsUpTo(S, n) == UNION {[1..k -> S] : k \in 0..n}

\* fetch_first_entries is not running
FeedIdle ==
  /\ urls = <<>>
  /\ limit = 0
  /\ items = <<>>
  /\ u = 1
  /\ e = 1
  /\ fpc = "idle"
  /\ reads = 0
  /\ examined = 0
  /\ result = <<>>

FeedInit ==
  /\ urls \in SeqsUpTo(FeedPool, MaxUrls)
  /\ limit \in 0..MaxLimit
  /\ items = <<>>
  /\ u = 1
  /\ e = 1
  /\ fpc = "url"
  /\ reads = 0
  /\ examined = 0
  /\ result = <<>>

\* faulty variant of EntryValid: the link is not tested
EntryValidTitleOnly(en) == Trim(Getattr(en, "title", <<>>)) # <<>>

\* the test "if title and link" on the stripped attributes
EntryValid(en) ==
  /\ Trim(Getattr(en, "title", <<>>)) # <<>>
  /\ Trim(Getattr(en, "link", <<>>)) # <<>>

\* faulty variant of EntryItem: the attributes are appended without .strip()
EntryItemUnstripped(en) == <<Getattr(en, "title", <<>>), Getattr(en, "link", <<>>)>>

\* items.append((title, link))
EntryItem(en) == <<Trim(Getattr(en, "title", <<>>)), Trim(Getattr(en, "link", <<>>))>>

\* if not getattr(feed, "entries", None): continue
FeedSkipped(feed) == ~feed.hasEntries \/ feed.entries = <<>>

\* the inner loop as a function: for e in feed.entries, from the j-th entry on
RECURSIVE ScanEntries(_, _, _, _)
ScanEntries(ents, j, its, lim) ==
  LET its2 == IF EntryValid(ents[j]) THEN Append(its, EntryItem(ents[j])) ELSE its
  IN IF Len(its2) >= lim \/ j = Len(ents) THEN its2
     ELSE ScanEntries(ents, j + 1, its2, lim)

\* the outer loop as a function: for url in urls, from the k-th URL on
RECURSIVE ScanFeeds(_, _, _, _)
ScanFeeds(fs, k, its, lim) ==
  IF k > Len(fs) THEN its
  ELSE IF FeedSkipped(fs[k]) THEN ScanFeeds(fs, k + 1, its, lim)
  ELSE LET its2 == ScanEntries(fs[k].entries, 1, its, lim)
       IN IF Len(its2) >= lim THEN its2 ELSE ScanFeeds(fs, k + 1, its2, lim)

\* the value of fetch_first_entries(urls, limit)
FetchFirstEntries(fs, lim) == PySliceTo(ScanFeeds(fs, 1, <<>>, lim), lim)

\* faulty variant of FeedParse: a failed or empty feed ends the loop over the URLs
FeedParseSkipBreaks ==
  /\ fpc = "url"
  /\ u <= Len(urls)
  /\ reads' = reads + 1
  /\ IF FeedSkipped(urls[u])
       THEN /\ fpc' = "ret"
            /\ UNCHANGED <<u, e>>
       ELSE /\ fpc' = "entry"
            /\ e' = 1
            /\ UNCHANGED u
  /\ UNCHANGED <<urls, limit, items, examined, result>>
  /\ UNCHANGED <<hotVars, comVars, mainVars, pageVars>>

\* for url in urls: feed = feedparser.parse(url) ...
FeedParse ==
  /\ fpc = "url"
  /\ u <= Len(urls)
  /\ reads' = reads + 1
  /\ IF FeedSkipped(urls[u])
       THEN /\ u' = u + 1
            /\ UNCHANGED <<fpc, e>>
       ELSE /\ fpc' = "entry"
            /\ e' = 1
            /\ UNCHANGED u
  /\ UNCHANGED <<urls, limit, items, examined, result>>
  /\ UNCHANGED <<hotVars, comVars, mainVars, pageVars>>

\* faulty variant of ExamineEntry: the inner loop has no break at the cap
ExamineEntryNoBreak ==
  /\ fpc = "entry"
  /\ LET ents == urls[u].entries
         en == ents[e]
         items2 == IF EntryValid(en) THEN Append(items, EntryItem(en)) ELSE items
     IN /\ items' = items2
        /\ examined' = examined + 1
        /\ IF e = Len(ents)
             THEN /\ fpc' = "after"
                  /\ UNCHANGED e
             ELSE /\ e' = e + 1
                  /\ UNCHANGED fpc
  /\ UNCHANGED <<urls, limit, u, reads, result>>
  /\ UNCHANGED <<hotVars, comVars, mainVars, pageVars>>

\* one iteration of: for e in feed.entries
ExamineEntry ==
  /\ fpc = "entry"
  /\ LET ents == urls[u].entries
         en == ents[e]
         items2 == IF EntryValid(en) THEN Append(items, EntryItem(en)) ELSE items
     IN /\ items' = items2
        /\ examined' = examined + 1
        /\ IF Len(items2) >= limit \/ e = Len(ents)
             THEN /\ fpc' = "after"
                  /\ UNCHANGED e
             ELSE /\ e' = e + 1
                  /\ UNCHANGED fpc
  /\ UNCHANGED <<urls, limit, u, reads, result>>
  /\ UNCHANGED <<hotVars, comVars, mainVars, pageVars>>

\* faulty variant of AfterFeed: the outer loop goes on to the next URL although
\* the cap is reached
AfterFeedNoBreak ==
  /\ fpc = "after"
  /\ fpc' = "url"
  /\ u' = u + 1
  /\ UNCHANGED <<urls, limit, items, e, reads, examined, result>>
  /\ UNCHANGED <<hotVars, comVars, mainVars, pageVars>>

\* after the inner loop: if len(items) >= limit: break
AfterFeed ==
  /\ fpc = "after"
  /\ IF Len(items) >= limit
       THEN /\ fpc' = "ret"
            /\ UNCHANGED u
       ELSE /\ fpc' = "url"
            /\ u' = u + 1
  /\ UNCHANGED <<urls, limit, items, e, reads, examined, result>>
  /\ UNCHANGED <<hotVars, comVars, mainVars, pageVars>>

\* return items[:limit]
FeedReturn ==
  /\ \/ fpc = "ret"
     \/ fpc = "url" /\ u > Len(urls)
  /\ result' = PySliceTo(items, limit)
  /\ fpc' = "done"
  /\ UNCHANGED <<urls, limit, items, u, e, reads, examined>>
  /\ UNCHANGED <<hotVars, comVars, mainVars, pageVars>>

FeedNext == FeedParse \/ ExamineEntry \/ AfterFeed \/ FeedReturn


(***************************************************************************)
(* RSS digest generator: main() and build_html(sections).                  *)
(***************************************************************************)
\* FEEDS: the sections in dictionary order, each with its number of URLs
FEEDS ==
  <<[name |-> "Politics / World", nurls |-> 3],
    [name |-> "Business / Economy", nurls |-> 3],
    [name |-> "Sports", nurls |-> 2]>>

\* what the URLs of a section may serve during one run of the job
MainFeedPool == {FeedFailed, FeedEmpty, FeedThree, FeedInvalid}

\* datetime.datetime.utcnow().strftime("%Y-%m-%d")
Days == {"2025-11-07", "2025-11-08"}

\* a line of the page: a literal, or a line with interpolated values
Line(k, t) == [kind |-> k, text |-> t, title |-> <<>>, href |-> <<>>]

HeadLines(today) ==
  <<Line("head", "<!doctype html>"),
    Line("head", "<html lang=\"en\">"),
    Line("head", "<head>"),
    Line("head", "  <meta charset=\"utf-8\" />"),
    Line("head", "  <meta name=\"viewport\" content=\"width=device-width,initial-scale=1\" />"),
    Line("head", "  <title>News - BriefRooms</title>"),
    Line("head", "  <meta name=\"description\" content=\"Automatic daily digest: politics/world, business/economy, sports.\" />"),
    Line("head", "  <link rel=\"icon\" href=\"/assets/favicon.svg\" />"),
    Line("head", "  <link rel=\"stylesheet\" href=\"/assets/site.css\" />"),
    Line("head", "</head>"),
    Line("head", "<body>"),
    Line("head", "  <header style=\"text-align:center; padding:26px 16px 8px\">"),
    Line("head", "    <h1>News</h1>"),
    Line("today", today),
    Line("head", "  </header>"),
    Line("head", "  <main style=\"max-width:980px; margin:0 auto; padding:0 16px 48px\">")>>

FootLines ==
  <<Line("foot", "    <p class=\"sub\" style=\"margin-top:22px\">"),
    Line("foot", "      Automatic digest (RSS). Links go to original publishers. Page is overwritten daily."),
    Line("foot", "    </p>"),
    Line("foot", "  </main>"),
    Line("foot", "  <footer style=\"text-align:center; opacity:.6; padding:16px 12px 36px\">(c) BriefRooms</footer>"),
    Line("foot", "</body>"),
    Line("foot", "</html>")>>

\* f'        <li><a href="{link}" target="_blank" rel="noopener">{title}</a></li>'
AnchorLine(item) == [kind |-> "li_a", text |-> "", title |-> item[1], href |-> item[2]]

PlaceholderLine == Line("li", "        <li>No headlines right now.</li>")

\* faulty variant of ItemLines: the placeholder is appended for every section
ItemLinesAlwaysPlaceholder(its) ==
  [i \in 1..Len(its) |-> AnchorLine(its[i])] \o <<PlaceholderLine>>

\* if items: one line per (title, link) else: the placeholder line
ItemLines(its) ==
  IF its # <<>> THEN [i \in 1..Len(its) |-> AnchorLine(its[i])]
  ELSE <<PlaceholderLine>>

\* the body of: for section_name, items in sections.items()
SectionLines(s) ==
  <<Line("section", "    <section class=\"card\" style=\"margin:16px 0; border-radius:22px;\">"),
    Line("h2", s.name),
    Line("ul", "      <ul>")>>
  \o ItemLines(s.items)
  \o <<Line("ul_end", "      </ul>"),
       Line("section_end", "    </section>")>>

RECURSIVE AllSectionLines(_)
AllSectionLines(secs) ==
  IF secs = <<>> THEN <<>>
  ELSE SectionLines(Head(secs)) \o AllSectionLines(Tail(secs))

\* build_html(sections): the lines that "\n".join(parts) joins
BuildHtml(secs, today) == HeadLines(today) \o AllSectionLines(secs) \o FootLines

NoFile == <<>>

\* main() is not running
MainIdle ==
  /\ mpc = "idle"
  /\ sec = 1
  /\ sectionsData = <<>>
  /\ allSkipped = <<>>
  /\ html = <<>>
  /\ written = NoFile

\* main() starts: sections_data = {}
MainInit ==
  /\ mpc = "loop"
  /\ sec = 1
  /\ sectionsData = <<>>
  /\ allSkipped = <<>>
  /\ html = <<>>
  /\ written = NoFile

\* for section, urls in FEEDS.items(): fetch_first_entries(urls, LIMIT_PER_SECTION) is called
MainCall ==
  /\ mpc = "loop"
  /\ sec <= Len(FEEDS)
  /\ fpc = "idle"
  /\ \E fs \in [1..FEEDS[sec].nurls -> MainFeedPool] : urls' = fs
  /\ limit' = LIMIT_PER_SECTION
  /\ items' = <<>>
  /\ u' = 1
  /\ e' = 1
  /\ fpc' = "url"
  /\ reads' = 0
  /\ examined' = 0
  /\ result' = <<>>
  /\ mpc' = "call"
  /\ UNCHANGED <<sec, sectionsData, allSkipped, html, written>>
  /\ UNCHANGED <<hotVars, comVars, pageVars>>

\* sections_data[section] = <the value returned>
MainStore ==
  /\ mpc = "call"
  /\ fpc = "done"
  /\ sectionsData' = Append(sectionsData, [name |-> FEEDS[sec].name, items |-> result])
  /\ allSkipped' = Append(allSkipped, \A i \in 1..Len(urls) : FeedSkipped(urls[i]))
  /\ sec' = sec + 1
  /\ mpc' = "loop"
  /\ fpc' = "idle"
  /\ UNCHANGED <<urls, limit, items, u, e, reads, examined, result>>
  /\ UNCHANGED <<html, written>>
  /\ UNCHANGED <<hotVars, comVars, pageVars>>

\* html = build_html(sections_data)
MainBuild ==
  /\ mpc = "loop"
  /\ sec > Len(FEEDS)
  /\ \E today \in Days : html' = BuildHtml(sectionsData, today)
  /\ mpc' = "built"
  /\ UNCHANGED <<sec, sectionsData, allSkipped, written>>
  /\ UNCHANGED <<feedVars, hotVars, comVars, pageVars>>

\* OUTPUT_PATH.write_text(html, encoding="utf-8")
MainWrite ==
  /\ mpc = "built"
  /\ written' = html
  /\ mpc' = "exit"
  /\ UNCHANGED <<sec, sectionsData, allSkipped, html>>
  /\ UNCHANGED <<feedVars, hotVars, comVars, pageVars>>

MainNext ==
  MainCall \/ FeedParse \/ ExamineEntry \/ AfterFeed \/ FeedReturn \/ MainStore
    \/ MainBuild \/ MainWrite

(***************************************************************************)
(* JavaScript String and Array primitives used by the browser scripts.     *)
(***************************************************************************)
UpperChars == <<"A", "B", "C", "D", "E", "F", "G", "H", "I", "J", "K", "L", "M",
                "N", "O", "P", "Q", "R", "S", "T", "U", "V", "W", "X", "Y", "Z",
                "A,", "Z.", "O'">>
LowerChars == <<"a", "b", "c", "d", "e", "f", "g", "h", "i", "j", "k", "l", "m",
                "n", "o", "p", "q", "r", "s", "t", "u", "v", "w", "x", "y", "z",
                "a,", "z.", "o'">>

LowerChar(c) ==
  IF \E i \in 1..Len(UpperChars) : UpperChars[i] = c
    THEN LowerChars[CHOOSE i \in 1..Len(UpperChars) : UpperChars[i] = c]
    ELSE c

\* String.prototype.toLowerCase()
ToLowerCase(s) == [i \in 1..Len(s) |-> LowerChar(s[i])]

\* String.prototype.startsWith(p)
StartsWith(s, p) == Len(s) >= Len(p) /\ SubSeq(s, 1, Len(p)) = p

\* String.prototype.endsWith(p)
EndsWith(s, p) == Len(s) >= Len(p) /\ SubSeq(s, Len(s) - Len(p) + 1, Len(s)) = p

\* s contains p as a substring
Includes(s, p) ==
  \E i \in 1..(Len(s) - Len(p) + 1) : SubSeq(s, i, i + Len(p) - 1) = p

\* RegExp.prototype.test for an unanchored alternation of literals a1|a2|...
RegexTest(alts, s) == \E a \in alts : Includes(s, a)

\* String.prototype.split(c) for a one-character separator
RECURSIVE Split(_, _)
Split(s, c) ==
  IF \A i \in 1..Len(s) : s[i] # c THEN <<s>>
  ELSE LET i == CHOOSE k \in 1..Len(s) : s[k] = c /\ \A j \in 1..(k - 1) : s[j] # c
       IN <<SubSeq(s, 1, i - 1)>> \o Split(SubSeq(s, i + 1, Len(s)), c)

\* parts[i] || ''  (i counted from 0 as in the code)
PartOr(parts, i) == IF i + 1 <= Len(parts) THEN parts[i + 1] ELSE <<>>

\* String.prototype.slice(1, -1)
Slice1m1(s) == SubSeq(s, 2, Len(s) - 1)

\* Array.prototype.slice(n) for any integer n
ArraySlice(s, n) ==
  LET start == IF n < 0 THEN Max2(Len(s) + n, 0) ELSE Min2(n, Len(s))
  IN SubSeq(s, start + 1, Len(s))

\* Array.prototype.filter
Filter(s, Keep(_)) == SelectSeq(s, Keep)

Quote == <<"\"">>
V2Prefix == <<"v", "2", "|">>

\* k.replace(/^v2\|/, '')
StripV2(k) == IF StartsWith(k, V2Prefix) THEN SubSeq(k, 4, Len(k)) ELSE k

\* if (title.startsWith('"') && title.endsWith('"')) title = title.slice(1, -1)
StripQuotes(t) == IF StartsWith(t, Quote) /\ EndsWith(t, Quote) THEN Slice1m1(t) ELSE t


(***************************************************************************)
(* The regular expressions of the hotbar categorizers.                     *)
(***************************************************************************)
\* the alternatives of the regular expression at src/scripts/hotbar.js:55
ReLocalHotbar ==
  {
    <<"p", "o", "l", "s", "k">>,
    <<"s", "e", "j", "m">>,
    <<"r", "z", "a,", "d">>,
    <<"p", "r", "e", "m", "i", "e", "r">>,
    <<"p", "o", "l", "i", "c", "j", "a">>,
    <<"z", "i", "o", "b", "r">>,
    <<"r", "p", "p">>,
    <<"n", "b", "p">>,
    <<"i", "n", "f", "l", "a", "c", "j">>,
    <<"s", "t", "r", "a", "z.">>,
    <<"w", "o", "j", "n", "a">>,
    <<"u", "k", "r", "a", "i", "n", "a">>,
    <<"g", "o", "s", "p", "o", "d", "a", "r">>
  }

\* the alternatives of the regular expression at src/scripts/hotbar.js:62
ReWorldHotbar ==
  {
    <<"u", "s", "a">>,
    <<"u", "k", " ">>,
    <<"e", "u", " ">>,
    <<"u", "n", " ">>,
    <<"e", "u", "r", "o">>,
    <<"w", "o", "r", "l", "d">>,
    <<"g", "l", "o", "b", "a", "l">>,
    <<"e", "l", "e", "c", "t", "i", "o", "n">>
  }

\* the alternatives of the regular expression at src/scripts/hotbar.js:68
ReSportHotbar ==
  {
    <<"m", "e", "c", "z">>,
    <<"l", "i", "g", "a">>,
    <<"w", "y", "n", "i", "k">>,
    <<"r", "e", "l", "a", "c", "j", "a">>,
    <<"f", "u", "t", "b", "o", "l">>,
    <<"s", "i", "a", "t", "k">>,
    <<"k", "o", "s", "z", "y">>,
    <<"s", "k", "o", "k", "i">>,
    <<"w", "t", "a">>,
    <<"a", "t", "p">>,
    <<"m", "i", "s", "t", "r", "z">>
  }

\* the alternatives of the regular expression at src/unnamed/part_005:54
ReLocalFirst ==
  {
    <<"p", "o", "l", "s", "k">>,
    <<"s", "e", "j", "m">>,
    <<"r", "z", "a,", "d">>,
    <<"p", "r", "e", "m", "i", "e", "r">>,
    <<"p", "o", "l", "i", "c", "j", "a">>,
    <<"z", "i", "o", "b", "r">>,
    <<"r", "p", "p">>,
    <<"n", "b", "p">>,
    <<"i", "n", "f", "l", "a", "c", "j">>,
    <<"s", "t", "r", "a", "z.">>,
    <<"w", "o", "j", "n", "a">>,
    <<"u", "k", "r", "a", "i", "n">>,
    <<"g", "o", "s", "p", "o", "d", "a", "r">>
  }

\* the alternatives of the regular expression at src/unnamed/part_005:60
ReWorldFirst ==
  {
    <<"u", "s", "a">>,
    <<"u", "k", " ">>,
    <<"e", "u", " ">>,
    <<"u", "n", " ">>,
    <<"e", "u", "r", "o">>,
    <<"w", "o", "r", "l", "d">>,
    <<"g", "l", "o", "b", "a", "l">>,
    <<"e", "l", "e", "c", "t", "i", "o", "n">>
  }

\* the alternatives of the regular expression at src/unnamed/part_005:66
ReSportFirst ==
  {
    <<"m", "e", "c", "z">>,
    <<"l", "i", "g", "a">>,
    <<"w", "y", "n", "i", "k">>,
    <<"r", "e", "l", "a", "c", "j", "a">>,
    <<"f", "u", "t", "b", "o", "l">>,
    <<"s", "i", "a", "t", "k">>,
    <<"k", "o", "s", "z", "y">>,
    <<"s", "k", "o", "k", "i">>,
    <<"w", "t", "a">>,
    <<"a", "t", "p">>,
    <<"m", "i", "s", "t", "r", "z">>,
    <<"m", "a", "t", "c", "h">>,
    <<"l", "e", "a", "g", "u", "e">>,
    <<"c", "u", "p">>,
    <<"g", "r", "a", "n", "d", " ", "p", "r", "i", "x">>,
    <<"o", "p", "e", "n">>
  }

\* the alternatives of the regular expression at src/unnamed/part_005:235
ReLocalProd ==
  {
    <<"p", "o", "l", "s", "k">>,
    <<"s", "e", "j", "m">>,
    <<"r", "z", "a,", "d">>,
    <<"p", "r", "e", "m", "i", "e", "r">>,
    <<"p", "o", "l", "i", "c", "j", "a">>,
    <<"s", "t", "r", "a", "z.">>,
    <<"z", "i", "o", "b", "r">>,
    <<"r", "p", "p">>,
    <<"n", "b", "p">>,
    <<"i", "n", "f", "l", "a", "c", "j">>,
    <<"s", "t", "o", "p", "y">>,
    <<"b", "u", "d", "z.", "e", "t">>,
    <<"g", "o", "s", "p", "o", "d", "a", "r">>,
    <<"w", "o", "j", "n">>,
    <<"u", "k", "r", "a", "i", "n">>
  }

\* the alternatives of the regular expression at src/unnamed/part_005:243
ReWorldProd ==
  {
    <<"u", "k", " ">>,
    <<"b", "r", "i", "t", "a", "i", "n">>,
    <<"s", "c", "o", "t", "l", "a", "n", "d">>,
    <<"w", "a", "l", "e", "s">>,
    <<"i", "r", "e", "l", "a", "n", "d">>,
    <<"l", "a", "b", "o", "u", "r">>,
    <<"t", "o", "r", "y">>,
    <<"s", "u", "n", "a", "k">>,
    <<"s", "t", "a", "r", "m", "e", "r">>,
    <<"d", "o", "w", "n", "i", "n", "g">>,
    <<"w", "h", "i", "t", "e", " ", "h", "o", "u", "s", "e">>,
    <<"s", "e", "n", "a", "t", "e">>,
    <<"c", "o", "n", "g", "r", "e", "s", "s">>,
    <<"e", "l", "e", "c", "t", "i", "o", "n">>,
    <<"u", "s", " ">>
  }

\* the alternatives of the regular expression at src/unnamed/part_005:254
ReSportProd ==
  {
    <<"m", "e", "c", "z">>,
    <<"l", "i", "g", "a">>,
    <<"w", "y", "n", "i", "k">>,
    <<"r", "e", "l", "a", "c", "j", "a">>,
    <<"f", "u", "t", "b", "o", "l">>,
    <<"s", "i", "a", "t", "k">>,
    <<"k", "o", "s", "z", "y">>,
    <<"s", "k", "o", "k", "i">>,
    <<"w", "t", "a">>,
    <<"a", "t", "p">>,
    <<"m", "i", "s", "t", "r", "z">>,
    <<"p", "r", "e", "m", "i", "e", "r", " ", "l", "e", "a", "g", "u", "e">>,
    <<"c", "h", "a", "m", "p", "i", "o", "n", "s", " ", "l", "e", "a", "g", "u", "e">>,
    <<"n", "b", "a">>,
    <<"f", "1">>,
    <<"f", "o", "r", "m", "u", "l", "a">>,
    <<"t", "e", "n", "n", "i", "s">>,
    <<"m", "a", "t", "c", "h">>
  }

(***************************************************************************)
(* Cache keys the summary cache may hold.                                  *)
(***************************************************************************)
\* Sejm|2025-11-06
K_Sejm1 ==
  <<"S", "e", "j", "m", "|", "2", "0", "2", "5", "-", "1", "1", "-", "0",
    "6">>

\* Sejm|2025-11-07
K_Sejm2 ==
  <<"S", "e", "j", "m", "|", "2", "0", "2", "5", "-", "1", "1", "-", "0",
    "7">>

\* "Sejm"|2025-11-07
K_SejmQ ==
  <<"\"", "S", "e", "j", "m", "\"", "|", "2", "0", "2", "5", "-", "1", "1",
    "-", "0", "7">>

\* "Sejm debates NATO summit"|2025-11-07
K_Nato ==
  <<"\"", "S", "e", "j", "m", " ", "d", "e", "b", "a", "t", "e", "s", " ",
    "N", "A", "T", "O", " ", "s", "u", "m", "m", "i", "t", "\"", "|", "2",
    "0", "2", "5", "-", "1", "1", "-", "0", "7">>

\* Sejm election|2025-11-07
K_SejmElection ==
  <<"S", "e", "j", "m", " ", "e", "l", "e", "c", "t", "i", "o", "n", "|",
    "2", "0", "2", "5", "-", "1", "1", "-", "0", "7">>

\* World news|2025-11-07
K_World ==
  <<"W", "o", "r", "l", "d", " ", "n", "e", "w", "s", "|", "2", "0", "2",
    "5", "-", "1", "1", "-", "0", "7">>

\* Election mecz|2025-11-07
K_ElectionMecz ==
  <<"E", "l", "e", "c", "t", "i", "o", "n", " ", "m", "e", "c", "z", "|",
    "2", "0", "2", "5", "-", "1", "1", "-", "0", "7">>

\* Mecz liga|2025-11-07
K_Mecz ==
  <<"M", "e", "c", "z", " ", "l", "i", "g", "a", "|", "2", "0", "2", "5",
    "-", "1", "1", "-", "0", "7">>

\* Wynik|2025-11-06
K_Wynik ==
  <<"W", "y", "n", "i", "k", "|", "2", "0", "2", "5", "-", "1", "1", "-",
    "0", "6">>

\* Siatkarze
K_Siatk ==
  <<"S", "i", "a", "t", "k", "a", "r", "z", "e">>

\* Pogoda|2025-11-07
K_Pogoda ==
  <<"P", "o", "g", "o", "d", "a", "|", "2", "0", "2", "5", "-", "1", "1",
    "-", "0", "7">>

\* Rz(a-ogonek)d|2025-11-07, the token "a," standing for a-ogonek
K_Rzad ==
  <<"R", "z", "a,", "d", "|", "2", "0", "2", "5", "-", "1", "1", "-", "0",
    "7">>

\* Rzad|2025-11-07, written without the diacritic
K_RzadPlain ==
  <<"R", "z", "a", "d", "|", "2", "0", "2", "5", "-", "1", "1", "-", "0",
    "7">>

\* RZ(A-ogonek)D|2025-11-06
K_RzadUpper ==
  <<"R", "Z", "A,", "D", "|", "2", "0", "2", "5", "-", "1", "1", "-", "0",
    "6">>

\* rz(a-ogonek)d|2025-11-05, all in lower case
K_RzadLower ==
  <<"r", "z", "a,", "d", "|", "2", "0", "2", "5", "-", "1", "1", "-", "0",
    "5">>

\* |2025-11-07
K_Blank ==
  <<"|", "2", "0", "2", "5", "-", "1", "1", "-", "0", "7">>

\*   |2025-11-07
K_Spaces ==
  <<" ", " ", "|", "2", "0", "2", "5", "-", "1", "1", "-", "0", "7">>

\* " "|2025-11-07
K_QuotedBlank ==
  <<"\"", " ", "\"", "|", "2", "0", "2", "5", "-", "1", "1", "-", "0", "7">>

\* Bud(z-dot)et|07/11/2025, the token "z." standing for z-dot
K_BadDate ==
  <<"B", "u", "d", "z.", "e", "t", "|", "0", "7", "/", "1", "1", "/", "2",
    "0", "2", "5">>

\* NBP|2025-11-07
K_Nbp ==
  <<"N", "B", "P", "|", "2", "0", "2", "5", "-", "1", "1", "-", "0", "7">>

\* UE|2025-11-07
K_Short ==
  <<"U", "E", "|", "2", "0", "2", "5", "-", "1", "1", "-", "0", "7">>

\* "Example Title"|2025-11-07
K_Example ==
  <<"\"", "E", "x", "a", "m", "p", "l", "e", " ", "T", "i", "t", "l", "e",
    "\"", "|", "2", "0", "2", "5", "-", "1", "1", "-", "0", "7">>

\* v2|"Example Title"|2025-11-07
K_V2Example ==
  <<"v", "2", "|", "\"", "E", "x", "a", "m", "p", "l", "e", " ", "T", "i",
    "t", "l", "e", "\"", "|", "2", "0", "2", "5", "-", "1", "1", "-", "0",
    "7">>

\* v2|Sejm|2025-11-06
K_V2Sejm ==
  <<"v", "2", "|", "S", "e", "j", "m", "|", "2", "0", "2", "5", "-", "1",
    "1", "-", "0", "6">>

KeyPool ==
  { K_Sejm1, K_Sejm2, K_SejmQ, K_Nato, K_SejmElection, K_World, K_ElectionMecz,
    K_Mecz, K_Wynik, K_Siatk, K_Pogoda, K_Rzad, K_RzadPlain, K_RzadUpper, K_RzadLower,
    K_Blank, K_Spaces, K_QuotedBlank, K_BadDate, K_Short, K_Nbp, K_Example,
    K_V2Example, K_V2Sejm }

\* A cache with three titles for every bucket, interleaved.
CacheNine ==
  <<K_Sejm1, K_World, K_Mecz, K_Nato, K_Pogoda, K_Wynik, K_Rzad, K_Example, K_Siatk>>

\* A cache whose keys all carry the version prefix.
CacheAllV2 == <<K_V2Example, K_V2Sejm>>

\* The key order of a JSON object: distinct keys, in the order of the file.
DistinctSeqs(S, n) ==
  {s \in SeqsUpTo(S, n) : \A i, j \in 1..Len(s) : i # j => s[i] # s[j]}

CacheInputs == DistinctSeqs(KeyPool, MaxKeys) \cup {CacheNine, CacheAllV2}

(***************************************************************************)
(* The hotbar scripts.  Script names:                                      *)
(*   "hotbar"  src/scripts/hotbar.js, lines 2-150                          *)
(*   "p005a"   src/unnamed/part_005, lines 2-161                           *)
(*   "p005b"   src/unnamed/part_005, lines 164-343 (production version)    *)
(*   "p001"    src/unnamed/part_001 (loadHotbar)                           *)
(*   "p003"    src/unnamed/part_003                                        *)
(*   "p004"    src/unnamed/part_004 (reads news_hotbar_*.json)             *)
(*   "p006"    src/unnamed/part_006 (renders fallbackItems on failure)     *)
(***************************************************************************)
Scripts == {"hotbar", "p005a", "p005b", "p001", "p003", "p004", "p006"}

\* the scripts that read the value as { updated_at, items: [{title, url, is_hot}] }
ItemScripts == {"p004", "p006"}


\* data.items: absent, a value that is not an array, or an array of elements
NoItems == [shape |-> "absent", elems |-> <<>>]

\* A JSON value: kind, Object.keys of it, and its properties items and updated_at
Json(k, ks, its, upd) == [kind |-> k, keys |-> ks, items |-> its, updatedAt |-> upd]

NoBody == Json("none", <<>>, NoItems, "absent")
JsonNull == Json("null", <<>>, NoItems, "absent")
NotJson == Json("invalid", <<>>, NoItems, "absent")

\* a JSON array of two elements: Object.keys gives its indices
JsonArray == Json("array", <<<<"0">>, <<"1">>>>, NoItems, "absent")

\* elements of data.items
ItemPlain == [null |-> FALSE, title |-> <<"P", "l", "a", "i", "n">>, url |-> "https://example.org/1", isHot |-> FALSE]
ItemHot == [null |-> FALSE, title |-> <<"H", "o", "t">>, url |-> "", isHot |-> TRUE]
ItemNoTitle == [null |-> FALSE, title |-> <<>>, url |-> "", isHot |-> FALSE]
ItemNull == [null |-> TRUE, title |-> <<>>, url |-> "", isHot |-> FALSE]

ItemsPool ==
  { NoItems,
    [shape |-> "other", elems |-> <<>>],
    [shape |-> "array", elems |-> <<>>],
    [shape |-> "array", elems |-> <<ItemPlain>>],
    [shape |-> "array", elems |-> <<ItemPlain, ItemHot>>],
    [shape |-> "array", elems |-> <<ItemPlain, ItemNull>>],
    [shape |-> "array", elems |-> <<ItemNoTitle>>] }

\* data.updated_at: missing, a date string, or a string that is no date
UpdatedAtPool == {"absent", "2025-11-07T12:30:00Z", "soon"}
NoRes == [status |-> 0, body |-> NoBody]

\* What a response body can be: a JSON object with the given keys in order,
\* the JSON value null, or text that is not JSON.
Bodies ==
  {Json("object", ks, NoItems, "absent") : ks \in CacheInputs}
    \cup {JsonNull, NotJson, JsonArray}

\* What a response body can be for the scripts that read data.items.
ItemBodies ==
  {Json("object", <<>>, its, upd) : its \in ItemsPool, upd \in UpdatedAtPool}
    \cup {JsonNull, NotJson, JsonArray}

Responses(s) ==
  {[status |-> 200, body |-> b] : b \in (IF s \in ItemScripts THEN ItemBodies ELSE Bodies)}
    \cup {[status |-> st, body |-> NotJson] : st \in {404, 500}}

\* Response.ok
ResOk(r) == r.status >= 200 /\ r.status <= 299

NoTime == [label |-> "", value |-> <<>>]

\* The page as served: the bar is shown, the track is empty, the time element is blank.
InitDom ==
  [ barDisplay |-> "",
    track |-> <<>>,
    trackCleared |-> FALSE,
    clones |-> <<>>,
    timeText |-> NoTime,
    styles |-> 0 ]

\* Object.keys(raw || {})
ObjectKeysOrEmpty(v) == IF v.kind \in {"object", "array"} THEN v.keys ELSE <<>>

Map(s, F(_)) == [i \in 1..Len(s) |-> F(s[i])]

\* !k.startsWith('v2|')
NotV2(k) == ~StartsWith(k, V2Prefix)

\* faulty variant of CleanKeys: the keys are not filtered
CleanKeysKeepAll(keys) == keys

\* keys.filter((k) => !k.startsWith('v2|'))
CleanKeys(keys) == Filter(keys, NotV2)

ParseHotbar(k) ==
  LET parts == Split(StripV2(k), "|")
  IN [title |-> Trim(StripQuotes(PartOr(parts, 0))), date |-> PartOr(parts, 1)]

ParseP005a(k) ==
  LET parts == Split(StripV2(k), "|")
  IN [title |-> StripQuotes(Trim(PartOr(parts, 0))), date |-> PartOr(parts, 1)]

ParseP005b(k) ==
  LET p == Split(StripV2(k), "|")
  IN [title |-> StripQuotes(Trim(PartOr(p, 0))), date |-> Trim(PartOr(p, 1))]

\* .filter((it) => it.title && it.title.length > 3)
KeepP005b(it) == it.title # <<>> /\ Len(it.title) > TitleMinLen

\* part_003: the map callback; an empty title maps to null, which filter(Boolean) drops
ParseP003(key) ==
  LET parts == Split(StripV2(key), "|")
  IN [title |-> Trim(StripQuotes(PartOr(parts, 0))), date |-> <<>>]

KeepP003(it) == it.title # <<>>

\* part_001: parts.length >= 2 ? parts[1] : null, then filter(txt => txt && txt.length > 0)
ParseP001(k) ==
  LET parts == Split(k, "|")
  IN [title |-> IF Len(parts) >= 2 THEN parts[2] ELSE <<>>, date |-> <<>>]

KeepP001(it) == it.title # <<>> /\ Len(it.title) > 0

\* The items a script parses out of the keys of the cache.
ParseItems(s, keys) ==
  CASE s = "hotbar" -> Map(CleanKeys(keys), ParseHotbar)
    [] s = "p005a" -> Map(CleanKeys(keys), ParseP005a)
    [] s = "p005b" -> Filter(Map(CleanKeys(keys), ParseP005b), KeepP005b)
    [] s = "p003" -> Filter(Map(ArraySlice(CleanKeys(keys), -MaxShownP003), ParseP003), KeepP003)
    [] s = "p001" -> Filter(Map(keys, ParseP001), KeepP001)

NoCats == [kraj |-> <<>>, world |-> <<>>, sport |-> <<>>]

\* faulty variant of PushKraj: the item is put in front of the bucket
PushKrajFront(cats, it) == [cats EXCEPT !.kraj = <<it>> \o @]

PushKraj(cats, it) == [cats EXCEPT !.kraj = Append(@, it)]
PushWorld(cats, it) == [cats EXCEPT !.world = Append(@, it)]
PushSport(cats, it) == [cats EXCEPT !.sport = Append(@, it)]

\* faulty variant of CatStepHotbar: the world pattern is tested before the local one
CatStepHotbarWorldFirst(en, cats, it) ==
  LET t == ToLowerCase(it.title)
  IN IF RegexTest(ReWorldHotbar, t) THEN PushWorld(cats, it)
     ELSE IF RegexTest(ReLocalHotbar, t) THEN PushKraj(cats, it)
     ELSE IF RegexTest(ReSportHotbar, t) THEN PushSport(cats, it)
     ELSE PushWorld(cats, it)

\* faulty variant of CatStepHotbar: the fallback bucket depends on the site
CatStepHotbarSiteFallback(en, cats, it) ==
  LET t == ToLowerCase(it.title)
  IN IF RegexTest(ReLocalHotbar, t) THEN PushKraj(cats, it)
     ELSE IF RegexTest(ReWorldHotbar, t) THEN PushWorld(cats, it)
     ELSE IF RegexTest(ReSportHotbar, t) THEN PushSport(cats, it)
     ELSE IF en THEN PushWorld(cats, it) ELSE PushKraj(cats, it)

\* faulty variant of CatStepHotbar: the title is tested as written, not lower-cased
CatStepHotbarCaseSensitive(en, cats, it) ==
  LET t == it.title
  IN IF RegexTest(ReLocalHotbar, t) THEN PushKraj(cats, it)
     ELSE IF RegexTest(ReWorldHotbar, t) THEN PushWorld(cats, it)
     ELSE IF RegexTest(ReSportHotbar, t) THEN PushSport(cats, it)
     ELSE PushWorld(cats, it)

\* src/scripts/hotbar.js: the body of items.forEach
CatStepHotbar(en, cats, it) ==
  LET t == ToLowerCase(it.title)
  IN IF RegexTest(ReLocalHotbar, t) THEN PushKraj(cats, it)
     ELSE IF RegexTest(ReWorldHotbar, t) THEN PushWorld(cats, it)
     ELSE IF RegexTest(ReSportHotbar, t) THEN PushSport(cats, it)
     ELSE PushWorld(cats, it)

\* src/unnamed/part_005, first script: the body of items.forEach
CatStepP005a(en, cats, it) ==
  LET t == ToLowerCase(it.title)
  IN IF ~en /\ RegexTest(ReLocalFirst, t) THEN PushKraj(cats, it)
     ELSE IF RegexTest(ReWorldFirst, t) THEN PushWorld(cats, it)
     ELSE IF RegexTest(ReSportFirst, t) THEN PushSport(cats, it)
     ELSE PushWorld(cats, it)

\* src/unnamed/part_005, production script: the body of items.forEach
CatStepP005b(en, cats, it) ==
  LET t == ToLowerCase(it.title)
  IN IF ~en /\ RegexTest(ReLocalProd, t) THEN PushKraj(cats, it)
     ELSE IF en /\ RegexTest(ReWorldProd, t) THEN PushWorld(cats, it)
     ELSE IF RegexTest(ReSportProd, t) THEN PushSport(cats, it)
     ELSE PushWorld(cats, it)

CatStep(s, en, cats, it) ==
  CASE s = "hotbar" -> CatStepHotbar(en, cats, it)
    [] s = "p005a" -> CatStepP005a(en, cats, it)
    [] s = "p005b" -> CatStepP005b(en, cats, it)

\* items.forEach(...): the buckets after the items have been visited in order
RECURSIVE CategorizeFrom(_, _, _, _)
CategorizeFrom(s, en, cats, its) ==
  IF its = <<>> THEN cats
  ELSE CategorizeFrom(s, en, CatStep(s, en, cats, Head(its)), Tail(its))

Categorize(s, en, its) == CategorizeFrom(s, en, NoCats, its)

\* faulty variant of FinalSelection: the first items of each bucket are taken
FinalSelectionFirstTwo(cats) ==
  SubSeq(cats.kraj, 1, Min2(PerBucket, Len(cats.kraj)))
    \o SubSeq(cats.world, 1, Min2(PerBucket, Len(cats.world)))
    \o SubSeq(cats.sport, 1, Min2(PerBucket, Len(cats.sport)))

\* const final = [...catKraj.slice(-2), ...catWorld.slice(-2), ...catSport.slice(-2)]
FinalSelection(cats) ==
  ArraySlice(cats.kraj, -PerBucket)
    \o ArraySlice(cats.world, -PerBucket)
    \o ArraySlice(cats.sport, -PerBucket)

Categorizing == {"hotbar", "p005a", "p005b"}

\* The list of items a script goes on to render.
Selected(s, en, keys) ==
  IF s \in Categorizing
    THEN FinalSelection(Categorize(s, en, ParseItems(s, keys)))
    ELSE ParseItems(s, keys)

NewsHref(en) == IF en THEN "/en/news.html" ELSE "/pl/aktualnosci.html"

\* document.createElement('a') with className br-hotbar-item
Anchor(en, it) == [tag |-> "a", text |-> it.title, href |-> NewsHref(en)]

Hide(d) == [d EXCEPT !.barDisplay = "none"]

TimeLabel(en) == IF en THEN "updated: " ELSE "aktualizacja: "

\* if (timeEl && final[final.length - 1].date) timeEl.textContent = ...
SetTimeFromLast(d, en, final) ==
  IF final[Len(final)].date # <<>>
    THEN [d EXCEPT !.timeText = [label |-> TimeLabel(en), value |-> final[Len(final)].date]]
    ELSE d

\* const clone = track.cloneNode(true); clone.id = ...; track.parentNode.appendChild(clone)
AppendClone(d) ==
  [d EXCEPT !.clones = Append(@, [id |-> "br-hotbar-track-clone", children |-> d.track])]

AppendStyle(d) == [d EXCEPT !.styles = @ + 1]

\* track.innerHTML = ''
ClearTrack(d) == [d EXCEPT !.track = <<>>, !.trackCleared = TRUE]

AppendAnchors(d, en, its) == [d EXCEPT !.track = @ \o Map(its, LAMBDA it : Anchor(en, it))]

Ret(d) == [dom |-> d, threw |-> FALSE]
Throw(d) == [dom |-> d, threw |-> TRUE]

\* src/scripts/hotbar.js lines 19-145 and part_005 lines 19-156: .then((raw) => {...})
ThenRawHotbar(s, en, v, d) ==
  LET keys == ObjectKeysOrEmpty(v)
      its == ParseItems(s, keys)
      final == FinalSelection(Categorize(s, en, its))
  IN IF keys = <<>> THEN Ret(Hide(d))
     ELSE IF s = "p005a" /\ its = <<>> THEN Ret(Hide(d))
     ELSE IF final = <<>> THEN Ret(Hide(d))
     ELSE Ret(AppendStyle(AppendClone(
            SetTimeFromLast(AppendAnchors(ClearTrack(d), en, final), en, final))))

\* part_005 lines 184-338: the production script clears the track first
ThenRawP005b(en, v, d) ==
  LET keys == ObjectKeysOrEmpty(v)
      its == ParseItems("p005b", keys)
      final == FinalSelection(Categorize("p005b", en, its))
      d1 == ClearTrack(d)
  IN IF keys = <<>> THEN Ret(Hide(d))
     ELSE IF its = <<>> THEN Ret(Hide(d1))
     ELSE IF final = <<>> THEN Ret(Hide(d1))
     ELSE Ret(AppendStyle(AppendClone(
            SetTimeFromLast(AppendAnchors(d1, en, final), en, final))))

DigitChars == {"0", "1", "2", "3", "4", "5", "6", "7", "8", "9"}

\* /^\d{4}-\d{2}-\d{2}$/.test(s)
IsIsoDate(s) ==
  /\ Len(s) = 10
  /\ \A i \in {1, 2, 3, 4, 6, 7, 9, 10} : s[i] \in DigitChars
  /\ s[5] = "-"
  /\ s[8] = "-"

\* part_003 lines 24-96
ThenRawP003(en, v, d) ==
  LET allKeys == ObjectKeysOrEmpty(v)
      selectedKeys == ArraySlice(CleanKeys(allKeys), -MaxShownP003)
      its == ParseItems("p003", allKeys)
      d1 == AppendAnchors(ClearTrack(d), en, its)
  IN IF allKeys = <<>> THEN Ret(Hide(d))
     ELSE IF its = <<>> THEN Ret(Hide(d))
     ELSE LET parts == Split(selectedKeys[Len(selectedKeys)], "|")
              datePart == parts[Len(parts)]
          IN IF datePart # <<>> /\ IsIsoDate(datePart)
               THEN Ret([d1 EXCEPT !.timeText = [label |-> TimeLabel(en), value |-> datePart]])
               ELSE Ret(d1)

Span(txt) == [tag |-> "span", text |-> txt, href |-> ""]
Separator == [tag |-> "sep", text |-> <<>>, href |-> ""]
WelcomeText == <<"Witamy w BriefRooms. Wybierz pokoj tematyczny.">>
FallbackText == <<"BriefRooms - krotkie podsumowania dnia.">>

\* messages.map(span).join(separator) + separator
RECURSIVE JoinWithSep(_)
JoinWithSep(msgs) ==
  IF msgs = <<>> THEN <<>>
  ELSE <<Span(Head(msgs).title), Separator>> \o JoinWithSep(Tail(msgs))

\* part_001 lines 43-99: the try block of loadHotbar after the fetch
ThenRawP001(v, d) ==
  LET messages == ParseItems("p001", v.keys)
      htmlContent == JoinWithSep(messages)
  IN IF v.kind = "null" THEN Throw(d)
     ELSE IF messages = <<>> THEN Ret([d EXCEPT !.track = <<Span(WelcomeText)>>])
     ELSE Ret([d EXCEPT !.track = htmlContent \o htmlContent])

\* a.href = item.url || default; a.textContent = item.title
ItemAnchor(en, it) ==
  [tag |-> "a", text |-> it.title, href |-> IF it.url # "" THEN it.url ELSE NewsHref(en)]

\* the position of the first null element of an array, 0 if there is none
FirstNull(its) ==
  IF \E i \in 1..Len(its) : its[i].null
    THEN CHOOSE i \in 1..Len(its) : its[i].null /\ \A j \in 1..(i - 1) : ~its[j].null
    ELSE 0

\* new Date(updated_at) is a valid date
ValidDate(upd) == upd = "2025-11-07T12:30:00Z"

\* part_004 lines 43-44: the clone keeps the id of the track
AppendCloneP004(d) ==
  [d EXCEPT !.clones = Append(@, [id |-> "br-hotbar-track", children |-> d.track])]

\* part_004 lines 47-55
SetTimeP004(d, upd) ==
  IF upd # "absent" /\ ValidDate(upd)
    THEN [d EXCEPT !.timeText = [label |-> "aktualizacja: ", value |-> <<"1", "2", ":", "3", "0", " ", "U", "T", "C">>]]
    ELSE d

\* part_004 lines 23-56: .then((data) => {...})
ThenDataP004(en, v, d) ==
  LET its == IF v.items.shape = "array" THEN v.items.elems ELSE <<>>
      n == FirstNull(its)
  IN IF v.kind = "null" THEN Throw(d)
     ELSE IF its = <<>> THEN Ret(Hide(d))
     ELSE IF n > 0
       THEN Throw([ClearTrack(d) EXCEPT
                     !.track = Map(SubSeq(its, 1, n - 1), LAMBDA it : ItemAnchor(en, it))])
     ELSE Ret(SetTimeP004(AppendCloneP004(
            [ClearTrack(d) EXCEPT !.track = Map(its, LAMBDA it : ItemAnchor(en, it))]),
            v.updatedAt))

\* part_006 lines 14-41
FallbackItems(en) ==
  IF en
    THEN <<[null |-> FALSE, title |-> <<"Key markets and geopolitics in focus today">>, url |-> "/en/news.html", isHot |-> FALSE],
           [null |-> FALSE, title |-> <<"Central banks: latest moves and comments">>, url |-> "/en/news.html", isHot |-> FALSE]>>
    ELSE <<[null |-> FALSE, title |-> <<"Kongres PSL wybierze nowe wladze. Kosiniak-Kamysz o roli ludowcow w rzadzie">>, url |-> "/pl/aktualnosci.html", isHot |-> FALSE],
           [null |-> FALSE, title |-> <<"Grozby pod adresem prezydenta Karola Nawrockiego. Policja bada sprawe">>, url |-> "/pl/aktualnosci.html", isHot |-> FALSE],
           [null |-> FALSE, title |-> <<"Tysiace osob bez pradu po przejsciu Claudii. Krajobraz po burzy">>, url |-> "/pl/aktualnosci.html", isHot |-> FALSE]>>

\* part_006 lines 43-54: renderItems(items)
RenderItems(d, en, its) ==
  [ClearTrack(d) EXCEPT !.track = Map(its, LAMBDA it : ItemAnchor(en, it))]

\* part_006 lines 56-65: renderTime(updatedAt)
RenderTime(d, upd) ==
  IF upd # "absent" /\ ValidDate(upd)
    THEN [d EXCEPT !.timeText = [label |-> "", value |-> <<"1", "2", ":", "3", "0">>]]
    ELSE d

IsHot(it) == it.isHot

\* part_006 lines 73-86: .then((data) => {...})
ThenDataP006(en, v, d) ==
  IF v.kind # "null" /\ v.items.shape = "array" /\ v.items.elems # <<>>
    THEN LET its == v.items.elems
             hot == Filter(its, IsHot)
         IN IF FirstNull(its) > 0 THEN Throw(d)
            ELSE Ret(RenderItems(RenderTime(d, v.updatedAt), en,
                                 IF hot # <<>> THEN hot ELSE its))
    ELSE Ret(RenderItems(d, en, FallbackItems(en)))

\* The callback that receives the parsed JSON.
ThenRawHandler(s, en, v, d) ==
  CASE s \in {"hotbar", "p005a"} -> ThenRawHotbar(s, en, v, d)
    [] s = "p005b" -> ThenRawP005b(en, v, d)
    [] s = "p003" -> ThenRawP003(en, v, d)
    [] s = "p001" -> ThenRawP001(v, d)
    [] s = "p004" -> ThenDataP004(en, v, d)
    [] s = "p006" -> ThenDataP006(en, v, d)

\* The rejection handler: .catch(...) / catch (err) {...}
CatchHandler(s, en, d) ==
  IF s = "p001" THEN [d EXCEPT !.track = <<Span(FallbackText)>>]
  ELSE IF s = "p006" THEN RenderItems(d, en, FallbackItems(en))
  ELSE Hide(d)

\* no hotbar script is running
HotIdle ==
  /\ script = "none"
  /\ isEN = FALSE
  /\ hpc = "idle"
  /\ res = NoRes
  /\ raw = NoBody
  /\ dom = InitDom

HotInit ==
  /\ script \in Scripts
  /\ isEN \in BOOLEAN
  /\ hpc = "fetch"
  /\ res = NoRes
  /\ raw = NoBody
  /\ dom = InitDom

\* the fetch promise resolves with a Response
FetchResolve ==
  /\ hpc = "fetch"
  /\ \E r \in Responses(script) :
       /\ res' = r
       /\ hpc' = "then1"
  /\ UNCHANGED <<script, isEN, raw, dom>>
  /\ UNCHANGED <<feedVars, comVars, mainVars, pageVars>>

\* the fetch promise rejects (network error)
FetchReject ==
  /\ hpc = "fetch"
  /\ hpc' = "catch"
  /\ UNCHANGED <<script, isEN, res, raw, dom>>
  /\ UNCHANGED <<feedVars, comVars, mainVars, pageVars>>

\* .then((res) => { if (!res.ok) throw ...; return res.json(); })
ThenRes ==
  /\ hpc = "then1"
  /\ IF ~ResOk(res) \/ res.body.kind = "invalid"
       THEN /\ hpc' = "catch"
            /\ UNCHANGED raw
       ELSE /\ hpc' = "then2"
            /\ raw' = res.body
  /\ UNCHANGED <<script, isEN, res, dom>>
  /\ UNCHANGED <<feedVars, comVars, mainVars, pageVars>>

\* .then((raw) => {...})
ThenRaw ==
  /\ hpc = "then2"
  /\ LET r == ThenRawHandler(script, isEN, raw, dom)
     IN /\ dom' = r.dom
        /\ hpc' = IF r.threw THEN "catch" ELSE "done"
  /\ UNCHANGED <<script, isEN, res, raw>>
  /\ UNCHANGED <<feedVars, comVars, mainVars, pageVars>>

\* .catch((err) => {...})
Catch ==
  /\ hpc = "catch"
  /\ dom' = CatchHandler(script, isEN, dom)
  /\ hpc' = "done"
  /\ UNCHANGED <<script, isEN, res, raw>>
  /\ UNCHANGED <<feedVars, comVars, mainVars, pageVars>>

Next == FetchResolve \/ FetchReject \/ ThenRes \/ ThenRaw \/ Catch

(***************************************************************************)
(* A page that carries src/unnamed/part_005: its two scripts run one after *)
(* the other, each starts its own fetch of the same cache file, and their  *)
(* callbacks run in the order in which the fetches complete.  The first    *)
(* script's chain is the one of the variables script, hpc, res, raw; the   *)
(* second script's chain is hpcB, resB, rawB; both act on the same dom.    *)
(***************************************************************************)
\* the caches the two fetches of one page may be answered with
PageCaches == {<<>>, <<K_Sejm1>>, <<K_World, K_Mecz>>, <<K_Short>>, CacheAllV2}

PageResponses ==
  {[status |-> 200, body |-> Json("object", ks, NoItems, "absent")] : ks \in PageCaches}
    \cup {[status |-> 200, body |-> JsonNull], [status |-> 404, body |-> NotJson]}

\* no second script
PageIdle ==
  /\ hpcB = "idle"
  /\ resB = NoRes
  /\ rawB = NoBody

\* both scripts of part_005 have run to their fetch
PageInit ==
  /\ script = "p005a"
  /\ isEN \in BOOLEAN
  /\ hpc = "fetch"
  /\ res = NoRes
  /\ raw = NoBody
  /\ dom = InitDom
  /\ hpcB = "fetch"
  /\ resB = NoRes
  /\ rawB = NoBody

\* the first script's fetch resolves
PageFetchResolveA ==
  /\ hpc = "fetch"
  /\ \E r \in PageResponses :
       /\ res' = r
       /\ hpc' = "then1"
  /\ UNCHANGED <<script, isEN, raw, dom>>
  /\ UNCHANGED <<feedVars, comVars, mainVars, pageVars>>

\* the second script's fetch resolves
PageFetchResolveB ==
  /\ hpcB = "fetch"
  /\ \E r \in PageResponses :
       /\ resB' = r
       /\ hpcB' = "then1"
  /\ UNCHANGED rawB
  /\ UNCHANGED <<feedVars, hotVars, comVars, mainVars>>

\* the second script's fetch rejects
PageFetchRejectB ==
  /\ hpcB = "fetch"
  /\ hpcB' = "catch"
  /\ UNCHANGED <<resB, rawB>>
  /\ UNCHANGED <<feedVars, hotVars, comVars, mainVars>>

\* second script: .then((res) => { if (!res.ok) throw ...; return res.json(); })
PageThenResB ==
  /\ hpcB = "then1"
  /\ IF ~ResOk(resB) \/ resB.body.kind = "invalid"
       THEN /\ hpcB' = "catch"
            /\ UNCHANGED rawB
       ELSE /\ hpcB' = "then2"
            /\ rawB' = resB.body
  /\ UNCHANGED resB
  /\ UNCHANGED <<feedVars, hotVars, comVars, mainVars>>

\* second script: .then((raw) => {...})
PageThenRawB ==
  /\ hpcB = "then2"
  /\ LET r == ThenRawHandler("p005b", isEN, rawB, dom)
     IN /\ dom' = r.dom
        /\ hpcB' = IF r.threw THEN "catch" ELSE "done"
  /\ UNCHANGED <<script, isEN, hpc, res, raw>>
  /\ UNCHANGED <<resB, rawB>>
  /\ UNCHANGED <<feedVars, comVars, mainVars>>

\* second script: .catch((err) => {...})
PageCatchB ==
  /\ hpcB = "catch"
  /\ dom' = CatchHandler("p005b", isEN, dom)
  /\ hpcB' = "done"
  /\ UNCHANGED <<script, isEN, hpc, res, raw>>
  /\ UNCHANGED <<resB, rawB>>
  /\ UNCHANGED <<feedVars, comVars, mainVars>>

PageNext ==
  \/ PageFetchResolveA \/ FetchReject \/ ThenRes \/ ThenRaw \/ Catch
  \/ PageFetchResolveB \/ PageFetchRejectB \/ PageThenResB \/ PageThenRawB \/ PageCatchB


(***************************************************************************)
(* The comment widget scripts.  Widget names:                              *)
(*   "comments"  src/assets/comments.js                                    *)
(*   "hotbarjs"  src/scripts/hotbar.js, lines 153-290                      *)
(*   "w1"        src/unnamed/part_007, lines 1-167                         *)
(*   "w2"        src/unnamed/part_007, lines 169-288                       *)
(***************************************************************************)
Widgets == {"comments", "hotbarjs", "w1", "w2"}

Rep(c, n) == [i \in 1..n |-> c]

\* What the textarea may hold when the form is submitted.
TextPool ==
  { <<>>,
    <<" ", "\n">>,
    <<" ", "h", "i", "\n">>,
    <<" ">> \o Rep("x", MAX_LEN) \o <<"\n">>,
    Rep("x", MAX_LEN - 1) \o <<" ", "y">> }

Guest == <<"G", "o", "s", "c">>
GeneratedNick == <<"G", "o", "s", "c", " ", "1", "2", "3", "4">>
NickPool == {<<" ">>, <<" ", "A", "n", "n">>}

\* Values Math.random().toString(36).slice(2) + Date.now().toString(36) can take.
UidPool == {"u1", "u2"}

\* The server's answer to a POST: the fetch rejects, or a response with a status
\* and a body that is not JSON, or JSON null, or a JSON object with or without ok.
PostOutcomes ==
  {[net |-> FALSE, status |-> 0, body |-> "none"]}
    \cup {[net |-> TRUE, status |-> st, body |-> b] :
            st \in {200, 500}, b \in {"invalid", "null", "ok_true", "ok_false", "no_ok"}}

RowA == [ts |-> "valid", nick |-> <<"A", "n", "n">>, text |-> <<"a", "<", "b">>]
RowB == [ts |-> "valid", nick |-> <<>>, text |-> <<"h", "i">>]
RowBadTs == [ts |-> "invalid", nick |-> <<"B">>, text |-> <<"x">>]

RowsPool == {<<>>, <<RowA>>, <<RowB, RowA>>, <<RowA, RowBadTs>>}

\* The server's answer to a GET.
GetOutcomes ==
  {[net |-> FALSE, status |-> 0, body |-> "none", rows |-> <<>>]}
    \cup {[net |-> TRUE, status |-> st, body |-> b, rows |-> <<>>] :
            st \in {200, 500}, b \in {"invalid", "null", "no_rows"}}
    \cup {[net |-> TRUE, status |-> 200, body |-> "rows", rows |-> rs] : rs \in RowsPool}


NoPost == [contentType |-> "", page |-> "", nick |-> <<>>, text |-> <<>>, uid |-> ""]

ListLoading == [kind |-> "loading", rows |-> <<>>]
ListError == [kind |-> "error", rows |-> <<>>]
ListEmpty == [kind |-> "empty", rows |-> <<>>]

\* esc(s): & < > replaced by entities
EscChar(c) ==
  CASE c = "&" -> <<"&", "a", "m", "p", ";">>
    [] c = "<" -> <<"&", "l", "t", ";">>
    [] c = ">" -> <<"&", "g", "t", ";">>
    [] OTHER -> <<c>>

RECURSIVE Esc(_)
Esc(s) == IF s = <<>> THEN <<>> ELSE EscChar(Head(s)) \o Esc(Tail(s))

\* faulty variant of UidValue: a new identifier for every call
UidValueFresh(st, fresh) == fresh

\* uid(): the stored identifier, or a new one that is stored
UidValue(st, fresh) == IF st.br_uid # "" THEN st.br_uid ELSE fresh
UidStore(st, fresh) == IF st.br_uid # "" THEN st ELSE [st EXCEPT !.br_uid = fresh]

\* defaultNick()
DefaultNick(st) == IF st.br_nick # <<>> THEN st.br_nick ELSE GeneratedNick
DefaultNickStore(st) == IF st.br_nick # <<>> THEN st ELSE [st EXCEPT !.br_nick = GeneratedNick]

\* n || "Gosc"
NickOrGuest(n) == IF n # <<>> THEN n ELSE Guest

\* no POST outcome is at hand
NoOutcome == [net |-> FALSE, status |-> 0, body |-> "pending"]

\* the request of fetch(EP + "?page=" + encodeURIComponent(page)) in load(): the
\* n-th GET of the widget, started by the mount or by the submit listener
LoadRequest(n, who) == [id |-> n, by |-> who, page |-> "page"]

\* no comment widget is mounted
ComIdle ==
  /\ widget = "none"
  /\ textInp = <<>>
  /\ nickInp = <<>>
  /\ errText = ""
  /\ sendDisabled = FALSE
  /\ storage = [br_nick |-> <<>>, br_uid |-> ""]
  /\ list = ListLoading
  /\ posts = 0
  /\ lastPost = NoPost
  /\ loads = {}
  /\ nextLoad = 0
  /\ cpc = "idle"
  /\ postRes = NoOutcome
  /\ listBy = 0

ComInit ==
  /\ widget \in Widgets
  /\ \E st \in [br_nick : {<<>>}, br_uid : {"", "u1"}] :
       /\ nickInp = DefaultNick(st)
       /\ storage = DefaultNickStore(st)
  /\ textInp = <<>>
  /\ errText = ""
  /\ sendDisabled = FALSE
  /\ list = ListLoading
  /\ posts = 0
  /\ lastPost = NoPost
  /\ loads = {LoadRequest(1, "mount")}
  /\ nextLoad = 1
  /\ cpc = "idle"
  /\ postRes = NoOutcome
  /\ listBy = 0

\* the user edits the comment text (between submissions)
TypeText ==
  /\ cpc = "idle"
  /\ \E t \in TextPool :
       /\ t # textInp
       /\ textInp' = t
  /\ UNCHANGED <<widget, nickInp, errText, sendDisabled, storage, list, posts,
                 lastPost, loads, nextLoad, cpc, postRes>>
  /\ UNCHANGED listBy
  /\ UNCHANGED <<feedVars, hotVars, mainVars, pageVars>>

\* the user edits the nick (between submissions)
TypeNick ==
  /\ cpc = "idle"
  /\ \E n \in NickPool :
       /\ n # nickInp
       /\ nickInp' = n
  /\ UNCHANGED <<widget, textInp, errText, sendDisabled, storage, list, posts,
                 lastPost, loads, nextLoad, cpc, postRes>>
  /\ UNCHANGED listBy
  /\ UNCHANGED <<feedVars, hotVars, mainVars, pageVars>>

ContentType(w) == IF w = "w2" THEN "application/json" ELSE "text/plain;charset=utf-8"

\* the request of fetch(EP, {method: "POST", headers, body: JSON.stringify(body)})
PostRequest(w, n, t, uidv) ==
  [ contentType |-> ContentType(w),
    page |-> "page",
    nick |-> NickOrGuest(n),
    text |-> t,
    uid |-> uidv ]

\* faulty variant of TextAccepted: the length is not tested
TextAcceptedNoCap(t) == t # <<>>

\* the test that lets the handler go on to send: !(!t) && !(t.length > MAX_LEN)
TextAccepted(t) == t # <<>> /\ ~(Len(t) > MAX_LEN)

\* faulty variant of Submit: the nick is saved before the text is validated
SubmitSavesNickFirst ==
  /\ ~sendDisabled
  /\ cpc = "idle"
  /\ posts < MaxPosts
  /\ LET n == Trim(nickInp)
         t == Trim(textInp)
     IN IF t = <<>>
          THEN /\ errText' = "Wpisz tresc komentarza."
               /\ storage' = [storage EXCEPT !.br_nick = NickOrGuest(n)]
               /\ UNCHANGED <<sendDisabled, posts, lastPost, cpc>>
        ELSE IF ~TextAccepted(t)
          THEN /\ errText' = "Za dlugi komentarz."
               /\ storage' = [storage EXCEPT !.br_nick = NickOrGuest(n)]
               /\ UNCHANGED <<sendDisabled, posts, lastPost, cpc>>
        ELSE \E fresh \in UidPool :
               /\ errText' = ""
               /\ sendDisabled' = TRUE
               /\ storage' = UidStore([storage EXCEPT !.br_nick = NickOrGuest(n)], fresh)
               /\ posts' = posts + 1
               /\ lastPost' = PostRequest(widget, n, t, UidValue(storage, fresh))
               /\ cpc' = "post"
  /\ UNCHANGED <<widget, textInp, nickInp, list, loads, nextLoad, postRes>>
  /\ UNCHANGED listBy
  /\ UNCHANGED <<feedVars, hotVars, mainVars, pageVars>>

\* the submit listener up to its first await
Submit ==
  /\ ~sendDisabled
  /\ cpc = "idle"
  /\ posts < MaxPosts
  /\ LET n == Trim(nickInp)
         t == Trim(textInp)
     IN IF t = <<>>
          THEN /\ errText' = "Wpisz tresc komentarza."
               /\ UNCHANGED <<sendDisabled, storage, posts, lastPost, cpc>>
        ELSE IF ~TextAccepted(t)
          THEN /\ errText' = "Za dlugi komentarz."
               /\ UNCHANGED <<sendDisabled, storage, posts, lastPost, cpc>>
        ELSE \E fresh \in UidPool :
               /\ errText' = ""
               /\ sendDisabled' = TRUE
               /\ storage' = UidStore([storage EXCEPT !.br_nick = NickOrGuest(n)], fresh)
               /\ posts' = posts + 1
               /\ lastPost' = PostRequest(widget, n, t, UidValue(storage, fresh))
               /\ cpc' = "post"
  /\ UNCHANGED <<widget, textInp, nickInp, list, loads, nextLoad, postRes>>
  /\ UNCHANGED listBy
  /\ UNCHANGED <<feedVars, hotVars, mainVars, pageVars>>

\* whether the handler takes the POST's outcome as success
PostSucceeded(w, o) ==
  CASE w = "comments" -> o.net /\ o.body = "ok_true"
    [] w = "hotbarjs" -> o.net /\ ResOk(o) /\ o.body = "ok_true"
    [] w = "w1" -> o.net /\ o.body = "ok_true"
    [] w = "w2" -> o.net /\ o.body # "invalid"

PostErrorText(w) ==
  IF w = "comments" THEN "Wysylka nie powiodla sie: ..."
  ELSE "Wysylka nie powiodla sie. Sprobuj ponownie."

\* await fetch(EP, {method: "POST", ...}): the POST completes, by a response or
\* by a rejection
PostRespond ==
  /\ cpc = "post"
  /\ \E o \in PostOutcomes : postRes' = o
  /\ cpc' = "resp"
  /\ UNCHANGED <<widget, textInp, nickInp, errText, sendDisabled, storage, list,
                 posts, lastPost, loads, nextLoad>>
  /\ UNCHANGED listBy
  /\ UNCHANGED <<feedVars, hotVars, mainVars, pageVars>>

\* faulty variant of PostSettle: after a success the text is cleared but the
\* list is not loaded again
PostSettleNoReload ==
  /\ cpc = "resp"
  /\ IF PostSucceeded(widget, postRes)
       THEN /\ textInp' = <<>>
            /\ sendDisabled' = FALSE
            /\ cpc' = "idle"
            /\ UNCHANGED <<errText, loads, nextLoad>>
       ELSE /\ errText' = PostErrorText(widget)
            /\ sendDisabled' = FALSE
            /\ cpc' = "idle"
            /\ UNCHANGED <<textInp, loads, nextLoad>>
  /\ postRes' = NoOutcome
  /\ UNCHANGED <<widget, nickInp, storage, list, posts, lastPost>>
  /\ UNCHANGED listBy
  /\ UNCHANGED <<feedVars, hotVars, mainVars, pageVars>>

\* faulty variant of PostSettle: the listener has no finally block, so a failed
\* submission leaves the button as it is
PostSettleNoFinally ==
  /\ cpc = "resp"
  /\ IF PostSucceeded(widget, postRes)
       THEN /\ textInp' = <<>>
            /\ loads' = loads \cup {LoadRequest(nextLoad + 1, "submit")}
            /\ nextLoad' = nextLoad + 1
            /\ cpc' = "load"
            /\ UNCHANGED <<errText, sendDisabled>>
       ELSE /\ errText' = PostErrorText(widget)
            /\ cpc' = "idle"
            /\ UNCHANGED <<sendDisabled, textInp, loads, nextLoad>>
  /\ postRes' = NoOutcome
  /\ UNCHANGED <<widget, nickInp, storage, list, posts, lastPost>>
  /\ UNCHANGED listBy
  /\ UNCHANGED <<feedVars, hotVars, mainVars, pageVars>>

\* the submit listener from the POST's completion to its next await or its end
PostSettle ==
  /\ cpc = "resp"
  /\ IF PostSucceeded(widget, postRes)
       THEN /\ textInp' = <<>>
            /\ loads' = loads \cup {LoadRequest(nextLoad + 1, "submit")}
            /\ nextLoad' = nextLoad + 1
            /\ cpc' = "load"
            /\ UNCHANGED <<errText, sendDisabled>>
       ELSE /\ errText' = PostErrorText(widget)
            /\ sendDisabled' = FALSE
            /\ cpc' = "idle"
            /\ UNCHANGED <<textInp, loads, nextLoad>>
  /\ postRes' = NoOutcome
  /\ UNCHANGED <<widget, nickInp, storage, list, posts, lastPost>>
  /\ UNCHANGED listBy
  /\ UNCHANGED <<feedVars, hotVars, mainVars, pageVars>>

\* one <li class="brc-item">
RowItem(r) == [nick |-> Esc(NickOrGuest(r.nick)), text |-> Esc(r.text)]

\* the rows up to the first one whose timestamp makes toISOString throw
AllTsValid(rs) == \A i \in 1..Len(rs) : rs[i].ts = "valid"

ListRows(rs) == [kind |-> "rows", rows |-> Map(rs, RowItem)]

\* what load() leaves in the list for an outcome of its GET
LoadResult(w, o) ==
  IF ~o.net THEN ListError
  ELSE IF o.body = "invalid"
    THEN ListError
  ELSE IF w = "hotbarjs" /\ (~ResOk(o) \/ o.body = "null" \/ o.body = "no_rows")
    THEN ListError
  ELSE IF w = "comments" /\ o.body = "null"
    THEN ListError
  ELSE IF o.body \in {"null", "no_rows"} \/ o.rows = <<>>
    THEN ListEmpty
  ELSE IF ~AllTsValid(o.rows)
    THEN ListError
  ELSE ListRows(o.rows)

\* faulty variant of LoadSettle: a request-generation guard drops the response
\* of every load() but the latest
LoadSettleGuarded ==
  /\ \E l \in loads, o \in GetOutcomes :
       /\ loads' = loads \ {l}
       /\ IF l.id = nextLoad
            THEN /\ list' = LoadResult(widget, o)
                 /\ listBy' = l.id
            ELSE UNCHANGED <<list, listBy>>
       /\ IF l.by = "submit"
            THEN /\ sendDisabled' = FALSE
                 /\ cpc' = "idle"
            ELSE UNCHANGED <<sendDisabled, cpc>>
  /\ UNCHANGED <<widget, textInp, nickInp, errText, storage, posts, lastPost, nextLoad,
                 postRes>>
  /\ UNCHANGED <<feedVars, hotVars, mainVars, pageVars>>

\* faulty variant of LoadSettle: the list is not emptied before the rows of the
\* response are appended
LoadSettleNoClear ==
  /\ \E l \in loads, o \in GetOutcomes :
       /\ loads' = loads \ {l}
       /\ list' = IF LoadResult(widget, o).kind = "rows"
                    THEN [kind |-> "rows", rows |-> list.rows \o LoadResult(widget, o).rows]
                    ELSE LoadResult(widget, o)
       /\ listBy' = l.id
       /\ IF l.by = "submit"
            THEN /\ sendDisabled' = FALSE
                 /\ cpc' = "idle"
            ELSE UNCHANGED <<sendDisabled, cpc>>
  /\ UNCHANGED <<widget, textInp, nickInp, errText, storage, posts, lastPost, nextLoad,
                 postRes>>
  /\ UNCHANGED <<feedVars, hotVars, mainVars, pageVars>>

\* load() from the completion of its GET to its end; a load() the submit listener
\* awaits lets the listener run to its end
LoadSettle ==
  /\ \E l \in loads, o \in GetOutcomes :
       /\ loads' = loads \ {l}
       /\ list' = LoadResult(widget, o)
       /\ listBy' = l.id
       /\ IF l.by = "submit"
            THEN /\ sendDisabled' = FALSE
                 /\ cpc' = "idle"
            ELSE UNCHANGED <<sendDisabled, cpc>>
  /\ UNCHANGED <<widget, textInp, nickInp, errText, storage, posts, lastPost, nextLoad,
                 postRes>>
  /\ UNCHANGED <<feedVars, hotVars, mainVars, pageVars>>

ComNext == TypeText \/ TypeNick \/ Submit \/ PostRespond \/ PostSettle \/ LoadSettle

\* the page is loaded again in the same browser: the script mounts the widget
\* anew, localStorage is what the earlier page left, and nothing of the earlier
\* page's listeners and outstanding callbacks is left to run
Remount ==
  /\ nickInp' = DefaultNick(storage)
  /\ storage' = DefaultNickStore(storage)
  /\ textInp' = <<>>
  /\ errText' = ""
  /\ sendDisabled' = FALSE
  /\ list' = ListLoading
  /\ loads' = {LoadRequest(1, "mount")}
  /\ nextLoad' = 1
  /\ cpc' = "idle"
  /\ postRes' = NoOutcome
  /\ listBy' = 0
  /\ UNCHANGED <<widget, posts, lastPost>>
  /\ UNCHANGED <<feedVars, hotVars, mainVars, pageVars>>

\* submits and page loads of one browser
UidNext ==
  TypeText \/ TypeNick \/ Submit \/ PostRespond \/ PostSettle \/ LoadSettle \/ Remount


(***************************************************************************)
(* Specifications: one per program.                                        *)
(***************************************************************************)
\* a page starts its hotbar script
Init == HotInit /\ FeedIdle /\ ComIdle /\ MainIdle /\ PageIdle

Spec == Init /\ [][Next]_vars

\* the digest generator calls fetch_first_entries
FeedSpecInit == FeedInit /\ HotIdle /\ ComIdle /\ MainIdle /\ PageIdle

FeedSpec == FeedSpecInit /\ [][FeedNext]_vars

\* a page mounts its comment widget
ComSpecInit == ComInit /\ FeedIdle /\ HotIdle /\ MainIdle /\ PageIdle

ComSpec == ComSpecInit /\ [][ComNext]_vars

\* comments.js on a device that has no identifier yet or has one, over several
\* page loads
UidSpecInit == ComSpecInit /\ widget = "comments"

UidSpec == UidSpecInit /\ [][UidNext]_vars

\* the widgets whose submit listener is comments.js 112-149, hotbar.js 249-280
\* or part_007 118-153
SubmitWidgets == {"comments", "hotbarjs", "w1"}

\* one of these widgets when every fetch is answered in the end and every
\* continuation of the listener that can run does run
ComLiveInit == ComSpecInit /\ widget \in SubmitWidgets

ComLiveSpec ==
  /\ ComLiveInit
  /\ [][ComNext]_vars
  /\ WF_vars(PostRespond)
  /\ WF_vars(PostSettle)
  /\ WF_vars(LoadSettle)

\* the digest generator runs main()
MainSpecInit == MainInit /\ FeedIdle /\ HotIdle /\ ComIdle /\ PageIdle

MainSpec == MainSpecInit /\ [][MainNext]_vars

\* a page carrying part_005 starts its two hotbar scripts
PageSpecInit == PageInit /\ FeedIdle /\ ComIdle /\ MainIdle

PageSpec == PageSpecInit /\ [][PageNext]_vars


(***************************************************************************)
(* Claims about fetch_first_entries.                                       *)
(***************************************************************************)
\* an attribute that is present and not blank
NonBlankAttr(x) == x # Absent /\ \E i \in 1..Len(x) : x[i] \notin WS

\* the (title, link) pairs a feed offers, in entry order
RECURSIVE ValidPairs(_)
ValidPairs(ents) ==
  IF ents = <<>> THEN <<>>
  ELSE LET en == Head(ents)
       IN (IF NonBlankAttr(en.title) /\ NonBlankAttr(en.link)
             THEN <<<<Trim(en.title), Trim(en.link)>>>>
             ELSE <<>>) \o ValidPairs(Tail(ents))

\* the valid pairs of all feeds, in URL-list order
RECURSIVE AllValidPairs(_)
AllValidPairs(fs) ==
  IF fs = <<>> THEN <<>>
  ELSE (IF Head(fs).hasEntries THEN ValidPairs(Head(fs).entries) ELSE <<>>)
         \o AllValidPairs(Tail(fs))

\* C1: for every URL list, feed content and limit, the returned list has at most
\* limit items, and every returned item has a title and a link that are
\* non-empty after trimming.
C1_AtMostLimitNonEmpty ==
  fpc = "done" =>
    /\ Len(result) <= limit
    /\ \A i \in 1..Len(result) :
         /\ Trim(result[i][1]) # <<>>
         /\ Trim(result[i][2]) # <<>>

\* C1 witness: a feed with blank-title and link-less entries around two valid
\* ones was read to the end under a limit of 2, and two items came back.
C1_Witness ==
  /\ fpc = "done"
  /\ urls = <<FeedInvalid, FeedMixed>>
  /\ limit = 2
  /\ Len(result) = 2
  /\ examined > 2

\* C2: the result is exactly the first min(limit, total) elements of the
\* concatenation, in URL-list order and entry order, of the feeds' valid entries.
C2_PrefixOfConcatenation ==
  fpc = "done" =>
    LET all == AllValidPairs(urls)
    IN result = SubSeq(all, 1, Min2(limit, Len(all)))

\* C2 witness: a feed with three valid entries behind a one-entry feed, limit 3:
\* the earlier URL's entry comes first, then the first two of the three, in
\* source order.
C2_Witness ==
  /\ fpc = "done"
  /\ urls = <<FeedOne, FeedThree>>
  /\ limit = 3
  /\ result = <<<<T_B, L_B>>, <<T_A, L_A>>, <<T_B, L_B>>>>

(***************************************************************************)
(* Claims about the hotbar scripts.                                        *)
(***************************************************************************)
\* the callback that receives the parsed cache has run to its end
Rendered == hpc = "done" /\ raw.kind = "object"

TrackTexts == [i \in 1..Len(dom.track) |-> dom.track[i].text]

BarHidden == dom.barDisplay = "none"

Range(s) == {s[i] : i \in 1..Len(s)}

LocalRe(s) ==
  CASE s = "hotbar" -> ReLocalHotbar [] s = "p005a" -> ReLocalFirst [] s = "p005b" -> ReLocalProd
WorldRe(s) ==
  CASE s = "hotbar" -> ReWorldHotbar [] s = "p005a" -> ReWorldFirst [] s = "p005b" -> ReWorldProd
SportRe(s) ==
  CASE s = "hotbar" -> ReSportHotbar [] s = "p005a" -> ReSportFirst [] s = "p005b" -> ReSportProd

\* which of its pattern tests a script applies on a site
LocalApplied(s, en) == s = "hotbar" \/ ~en
WorldApplied(s, en) == s \in {"hotbar", "p005a"} \/ en

MatchesLocal(s, title) == RegexTest(LocalRe(s), ToLowerCase(title))
MatchesWorld(s, title) == RegexTest(WorldRe(s), ToLowerCase(title))
MatchesSport(s, title) == RegexTest(SportRe(s), ToLowerCase(title))

OnlyIn(it, cats, b) ==
  /\ it \in Range(cats[b])
  /\ \A c \in {"kraj", "world", "sport"} \ {b} : it \notin Range(cats[c])

T_SejmElection ==
  <<"S", "e", "j", "m", " ", "e", "l", "e", "c", "t", "i", "o", "n">>
T_WorldNews == <<"W", "o", "r", "l", "d", " ", "n", "e", "w", "s">>

MatchesNothing(s, en, t) ==
  /\ ~(LocalApplied(s, en) /\ MatchesLocal(s, t))
  /\ ~(WorldApplied(s, en) /\ MatchesWorld(s, t))
  /\ ~MatchesSport(s, t)

T_Pogoda == <<"P", "o", "g", "o", "d", "a">>
T_MeczLiga == <<"M", "e", "c", "z", " ", "l", "i", "g", "a">>

KeyTitle(k) == Trim(StripQuotes(Trim(PartOr(Split(StripV2(k), "|"), 0))))

\* every key of the cache is malformed: none yields a non-empty title
AllMalformed(keys) == keys # <<>> /\ \A i \in 1..Len(keys) : KeyTitle(keys[i]) = <<>>

\* C5: whenever the final selection is empty (the cache is an empty object, every
\* key is malformed, or the fetch answered 404) the bar is hidden and no item is
\* rendered.
C5_EmptySelectionHidesBar ==
  (hpc = "done" /\ script \in {"hotbar", "p001"}) =>
    ((\/ res.status = 404
      \/ raw.kind = "object" /\ raw.keys = <<>>
      \/ raw.kind = "object" /\ AllMalformed(raw.keys))
       => (BarHidden /\ dom.track = <<>>))

\* C6: no title text appears twice in the final ticker selection.
C6_NoTitleTwice ==
  (Rendered /\ script \in {"hotbar", "p005b"}) =>
    \A i, j \in 1..Len(dom.track) : i # j => dom.track[i].text # dom.track[j].text

T_Example == <<"E", "x", "a", "m", "p", "l", "e", " ", "T", "i", "t", "l", "e">>
T_Sejm == <<"S", "e", "j", "m">>
T_Nato ==
  <<"S", "e", "j", "m", " ", "d", "e", "b", "a", "t", "e", "s", " ", "N", "A", "T",
    "O", " ", "s", "u", "m", "m", "i", "t">>
D_Nov7 == <<"2", "0", "2", "5", "-", "1", "1", "-", "0", "7">>

\* the key "<title>"|<date> and the key v2|"<title>"|<date>
QuotedKey(t, d) == Quote \o t \o Quote \o <<"|">> \o d
V2QuotedKey(t, d) == V2Prefix \o QuotedKey(t, d)

LastN(s, n) ==
  LET k == Min2(n, Len(s)) IN [i \in 1..k |-> s[Len(s) - k + i]]

Titles(its) == [i \in 1..Len(its) |-> its[i].title]

\* the selection is the last two of each bucket, local then world then sports
SelectionIsLastTwoPerBucket ==
  \A cats \in {Categorize(script, isEN, ParseItems(script, raw.keys))} :
  \A final \in {LastN(cats.kraj, 2) \o LastN(cats.world, 2) \o LastN(cats.sport, 2)} :
    /\ TrackTexts = Titles(final)
    /\ Len(dom.track) <= 6
    /\ BarHidden <=> final = <<>>

\* C8 as claimed: the selection is the last 2 of each bucket in the order local,
\* world, sports (at most 6), and on the native site a cache with exactly one
\* local-matching and one sports-matching title shows exactly those two, the
\* local one first.
C8_LastTwoPerBucketAndScenario ==
  (Rendered /\ script \in {"hotbar", "p005b"}) =>
    /\ SelectionIsLastTwoPerBucket
    /\ (~isEN /\ Len(raw.keys) = 2) =>
         \A a, b \in 1..2 :
           LET ta == KeyTitle(raw.keys[a])
               tb == KeyTitle(raw.keys[b])
           IN (a # b /\ MatchesLocal(script, ta)
                 /\ MatchesSport(script, tb) /\ ~MatchesLocal(script, tb))
                => TrackTexts = <<ta, tb>>

\* C8 amended: as claimed, the scenario being for two keys without the v2|
\* prefix (hotbar.js discards the others) whose titles, in the production
\* script, have more than 3 characters (it discards shorter ones).
C8_LastTwoPerBucketScenarioKept ==
  (Rendered /\ script \in {"hotbar", "p005b"}) =>
    /\ SelectionIsLastTwoPerBucket
    /\ (~isEN /\ Len(raw.keys) = 2 /\ NotV2(raw.keys[1]) /\ NotV2(raw.keys[2])) =>
         \A a, b \in 1..2 :
           LET ta == KeyTitle(raw.keys[a])
               tb == KeyTitle(raw.keys[b])
           IN (a # b /\ MatchesLocal(script, ta)
                 /\ MatchesSport(script, tb) /\ ~MatchesLocal(script, tb)
                 /\ (script = "p005b" => (Len(ta) > 3 /\ Len(tb) > 3)))
                => TrackTexts = <<ta, tb>>

\* C8 witness: on the native site the cache held a sports title and then a local
\* title, and the ticker shows the two with the local one first.
C8_Witness ==
  /\ Rendered
  /\ script \in {"hotbar", "p005b"}
  /\ ~isEN
  /\ raw.keys = <<K_Mecz, K_Sejm1>>
  /\ TrackTexts = <<T_Sejm, T_MeczLiga>>
  /\ Len(dom.clones) = 1

\* C9: every rendered item has a title that is non-empty after trimming.
C9_RenderedTitlesNonBlank ==
  (Rendered /\ script \in {"hotbar", "p003"}) =>
    \A i \in 1..Len(dom.track) : Trim(dom.track[i].text) # <<>>

(***************************************************************************)
(* Claims about the comment widget.                                        *)
(***************************************************************************)
\* C10: a POST is issued only for a text whose trimmed length is between 1 and
\* MAX_LEN, and the text sent is the trimmed text.
C10_PostOnlyValidTrimmedText ==
  [][posts' # posts =>
       /\ posts' = posts + 1
       /\ Len(Trim(textInp)) >= 1
       /\ Len(Trim(textInp)) <= MAX_LEN
       /\ lastPost'.text = Trim(textInp)
       /\ Len(lastPost'.text) <= MAX_LEN]_vars

\* C10 witness: a text of MAX_LEN characters between blanks was submitted and
\* the POST carries the MAX_LEN characters.
C10_Witness ==
  /\ posts = 1
  /\ cpc = "post"
  /\ Len(textInp) = MAX_LEN + 2
  /\ lastPost.text = Rep("x", MAX_LEN)

\* a POST outcome that is a 2xx response whose body is JSON with ok equal to true
OkTrueResponse(o) == o.net /\ ResOk(o) /\ o.body = "ok_true"

\* C11: a submission is treated as successful only when the POST response parses
\* as JSON with ok equal to true; in every other outcome (network exception,
\* non-JSON body, non-2xx status, ok missing or false) an error message is
\* shown, the text input keeps its content and no further POST is issued.
C11_SuccessOnlyOnOkTrue ==
  [][(cpc = "resp" /\ cpc' # "resp" /\ widget \in {"comments", "w2"}
        /\ ~OkTrueResponse(postRes)) =>
       /\ errText' # ""
       /\ textInp' = textInp
       /\ posts' = posts
       /\ cpc' # "load"]_vars

C13_OneReadPerUrl == fpc = "done" => reads = Len(urls)

\* the URLs at which the outer loop stops: feeds with entries by whose end the
\* valid entries so far are at least limit
CapUrls ==
  {k \in 1..Len(urls) :
     /\ ~FeedSkipped(urls[k])
     /\ Len(AllValidPairs(SubSeq(urls, 1, k))) >= limit}

\* C13 amended: the URLs are read in list order, each at most once, up to and
\* including the first one by whose end the cap is filled; the URLs after it are
\* not read.  Every URL is read only when the cap is never filled before the
\* last one.
C13_ReadsStopAtCap ==
  /\ reads <= Len(urls)
  /\ fpc = "done" =>
       reads = (IF CapUrls = {} THEN Len(urls)
                ELSE CHOOSE k \in CapUrls : \A j \in CapUrls : k <= j)

\* C13 witness: the first of two URLs filled the cap and the second was not read.
C13_Witness ==
  /\ fpc = "done"
  /\ urls = <<FeedThree, FeedOne>>
  /\ limit = 3
  /\ reads = 1
  /\ Len(result) = 3

\* the list without its i-th element
RemoveAt(s, i) == SubSeq(s, 1, i - 1) \o SubSeq(s, i + 1, Len(s))

\* the card of the k-th section in a page: the lines from its opening line to its closing line
CardStart(page, k) ==
  CHOOSE p \in 1..Len(page) :
    /\ page[p].kind = "section"
    /\ Cardinality({q \in 1..p : page[q].kind = "section"}) = k

CardEnd(page, k) ==
  CHOOSE p \in CardStart(page, k)..Len(page) :
    /\ page[p].kind = "section_end"
    /\ \A q \in CardStart(page, k)..(p - 1) : page[q].kind # "section_end"

Card(page, k) == SubSeq(page, CardStart(page, k), CardEnd(page, k))

ListLines(card) == SelectSeq(card, LAMBDA l : l.kind \in {"li", "li_a"})

\* C14: a feed that failed or came back empty contributes nothing and stops
\* nothing: the value fetch_first_entries returns is the value it returns for
\* the list without that feed, and a section all of whose feeds failed is
\* written to the page with the placeholder line as its only list line.
C14_SkippedFeedContributesNothing ==
  /\ fpc = "done" =>
       /\ result = FetchFirstEntries(urls, limit)
       /\ \A i \in 1..Len(urls) :
            FeedSkipped(urls[i]) => result = FetchFirstEntries(RemoveAt(urls, i), limit)
  /\ mpc = "exit" =>
       /\ written # NoFile
       /\ \A k \in 1..Len(FEEDS) :
            allSkipped[k] =>
              /\ Card(written, k)[2] = Line("h2", FEEDS[k].name)
              /\ ListLines(Card(written, k)) = <<PlaceholderLine>>

\* C14 witness: the page is written after a run in which every feed of the
\* second section failed while the first section got items past a failed feed.
C14_Witness ==
  /\ mpc = "exit"
  /\ allSkipped = <<FALSE, TRUE, FALSE>>
  /\ Len(sectionsData[1].items) = 3
  /\ sectionsData[2].items = <<>>
  /\ written = html

\* the number of lines of a card for a list of n items
CardLen(n) == 5 + (IF n = 0 THEN 1 ELSE n)

RECURSIVE CardOffset(_, _)
\* the number of lines before the k-th card of a page built from secs
CardOffset(secs, k) ==
  IF k = 1 THEN Len(HeadLines("")) ELSE CardOffset(secs, k - 1) + CardLen(Len(secs[k - 1].items))

\* C19: the page build_html returns has exactly one card per section, in the
\* order of its input, headed by the section label; the list of a section with
\* items has one anchor per item in item order and no placeholder, the list of
\* a section without items has exactly the placeholder line and no anchor.
C19_OneCardPerSection ==
  mpc \in {"built", "exit"} =>
    \A n \in {Len(sectionsData)} :
      /\ Cardinality({p \in 1..Len(html) : html[p].kind = "section"}) = n
      /\ Cardinality({p \in 1..Len(html) : html[p].kind = "section_end"}) = n
      /\ Cardinality({p \in 1..Len(html) : html[p].kind = "h2"}) = n
      /\ Len(html) = CardOffset(sectionsData, n + 1) + Len(FootLines)
      /\ \A k \in 1..n :
           \A o \in {CardOffset(sectionsData, k)} :
             \A its \in {sectionsData[k].items} :
               /\ html[o + 1].kind = "section"
               /\ html[o + 2] = Line("h2", sectionsData[k].name)
               /\ html[o + 3].kind = "ul"
               /\ IF its # <<>>
                    THEN \A i \in 1..Len(its) :
                           /\ html[o + 3 + i].kind = "li_a"
                           /\ html[o + 3 + i].title = its[i][1]
                           /\ html[o + 3 + i].href = its[i][2]
                    ELSE html[o + 4] = Line("li", "        <li>No headlines right now.</li>")
               /\ html[o + CardLen(Len(its)) - 1].kind = "ul_end"
               /\ html[o + CardLen(Len(its))].kind = "section_end"

\* C19 witness: a page was built from a section with six items, a section with
\* none and a section with three.
C19_Witness ==
  /\ mpc = "built"
  /\ Len(sectionsData) = 3
  /\ Len(sectionsData[1].items) = 6
  /\ sectionsData[2].items = <<>>
  /\ Len(sectionsData[3].items) = 3
  /\ Len(html) = 16 + 11 + 6 + 8 + 7

\* the cases of a failed load: the fetch rejected, the status is not 2xx, the
\* body is not JSON, the value is null or not of the expected shape, or the
\* result is empty
LoadFailed ==
  \/ res = NoRes
  \/ ~ResOk(res)
  \/ res.body.kind \in {"invalid", "null", "array"}
  \/ script \in ItemScripts /\ res.body.items.shape # "array"
  \/ script \in ItemScripts /\ res.body.items.elems = <<>>
  \/ script \notin ItemScripts /\ CleanKeys(res.body.keys) = <<>>

\* the track holds the built-in fallback items
FallbackShown ==
  /\ script = "p006"
  /\ dom.track = Map(FallbackItems(isEN), LAMBDA it : ItemAnchor(isEN, it))

\* C15: when loading the cache fails (rejection, non-2xx status, body that is not
\* JSON, null or a value of an unexpected shape, empty result) the hotbar ends
\* hidden or showing the fallback content, and it never ends visible with a
\* track that was cleared and left empty.
C15_FailedLoadHidesOrFallsBack ==
  (hpc = "done" /\ script \in {"hotbar", "p004", "p006"}) =>
    /\ LoadFailed => (BarHidden \/ FallbackShown)
    /\ ~(dom.trackCleared /\ dom.track = <<>> /\ ~BarHidden)

RECURSIVE Flatten(_)
Flatten(ss) == IF ss = <<>> THEN <<>> ELSE Head(ss) \o Flatten(Tail(ss))

\* the texts of the items the ticker holds: those of the track, then those of its clones
TickerTexts ==
  LET nodes == dom.track \o Flatten([i \in 1..Len(dom.clones) |-> dom.clones[i].children])
      shown == SelectSeq(nodes, LAMBDA n : n.tag # "sep")
  IN [i \in 1..Len(shown) |-> shown[i].text]

\* C16: after a successful render of k selected items the ticker holds the k
\* items followed by exactly one copy of them in the same order.
C16_SelectionShownTwice ==
  (Rendered /\ script \in {"hotbar", "p001", "p003"}) =>
    \A sel \in {Titles(Selected(script, isEN, raw.keys))} :
      sel # <<>> => TickerTexts = sel \o sel

\* C17: every POST a comment widget sends carries page, nick, text and uid under
\* the Content-Type text/plain, which needs no pre-flight; none is sent as
\* application/json.
C17_PostIsSimpleRequest ==
  (posts > 0 /\ widget \in {"comments", "w1", "w2"}) =>
    /\ lastPost.contentType = "text/plain;charset=utf-8"
    /\ lastPost.text = Trim(lastPost.text)
    /\ lastPost.nick # <<>>
    /\ lastPost.uid # ""

\* a letter without its diacritic
PlainChar(c) ==
  CASE c = "a," -> "a" [] c = "z." -> "z" [] c = "o'" -> "o" [] OTHER -> c

\* a title in lower case with the diacritics stripped
Folded(t) == [i \in 1..Len(t) |-> PlainChar(LowerChar(t[i]))]

\* the bucket the categorizer of script s puts an item in
BucketOf(s, en, it) ==
  CHOOSE b \in {"kraj", "world", "sport"} : CatStep(s, en, NoCats, it)[b] = <<it>>

T_RzadLower == <<"r", "z", "a,", "d">>
T_RzadPlainLower == <<"r", "z", "a", "d">>

C20_LastCompletedLoadWins ==
  [][\A l \in loads :
       l \notin loads' =>
         /\ listBy' = l.id
         /\ \E o \in GetOutcomes : list' = LoadResult(widget, o)]_vars

\* C20 witness: in comments.js the GET of the initial load() completed after the
\* GET of the load() that followed a successful submit, and its older answer
\* (no rows) is what the list shows.
C20_Witness ==
  /\ widget = "comments"
  /\ posts = 1
  /\ nextLoad = 2
  /\ loads = {}
  /\ listBy = 1
  /\ list = ListEmpty

\* the copies of the track in its parent that carry the clone's id
CloneIds == {i \in 1..Len(dom.clones) : dom.clones[i].id = "br-hotbar-track-clone"}

\* C21: on a page that carries a script file, under every interleaving of the
\* fetch completions the parent of the track ends with at most one element
\* whose id is br-hotbar-track-clone.
C21_AtMostOneClone == Cardinality(CloneIds) <= 1

\* the name of the only non-empty bucket
BucketName(c) ==
  IF c.kraj # <<>> THEN "kraj" ELSE IF c.world # <<>> THEN "world" ELSE "sport"

\* for every item, the bucket the categorizer decides on when it visits it
Decisions(s, en, its) ==
  [i \in 1..Len(its) |-> BucketName(CatStep(s, en, NoCats, its[i]))] \o <<>>

\* the items of its whose decision is b, in the order of its
Picked(its, dec, b) ==
  LET idx == SelectSeq([i \in 1..Len(its) |-> i], LAMBDA i : dec[i] = b)
  IN [k \in 1..Len(idx) |-> its[idx[k]]]

\* C22: the categorizer partitions the parsed items: every item is in exactly
\* one bucket, the bucket sizes sum to the number of items, and each bucket
\* holds its items in their cache order.
C22_BucketsPartitionItems ==
  (Rendered /\ script \in {"hotbar", "p005b"}) =>
    \A its \in {ParseItems(script, raw.keys) \o <<>>} :
      \A cats \in {Categorize(script, isEN, its)} :
        \A dec \in {Decisions(script, isEN, its)} :
          /\ Len(cats.kraj) + Len(cats.world) + Len(cats.sport) = Len(its)
          /\ \A b \in {"kraj", "world", "sport"} : cats[b] = Picked(its, dec, b)

\* C22 witness: hotbar.js categorized the cache of nine titles, three to each
\* bucket, and rendered the last two of each.
C22_Witness ==
  /\ Rendered
  /\ script = "hotbar"
  /\ ~isEN
  /\ raw.keys = CacheNine
  /\ \A cats \in {Categorize(script, isEN, ParseItems(script, raw.keys))} :
       Len(cats.kraj) = 3 /\ Len(cats.world) = 3 /\ Len(cats.sport) = 3
  /\ Len(dom.track) = 6

\* C23: the send button is disabled exactly while a submission is in progress,
\* and when every fetch is answered in the end the button is enabled again
\* after every submission, whatever its outcome.
C23_DisabledWhileSubmitting ==
  /\ [](sendDisabled <=> cpc # "idle")
  /\ (sendDisabled ~> ~sendDisabled)

\* C23 witness: a submission succeeded, its reload has rendered the list and the
\* button is enabled again.
C23_Witness ==
  /\ widget \in SubmitWidgets
  /\ posts = 1
  /\ cpc = "idle"
  /\ listBy = 2
  /\ textInp = <<>>
  /\ ~sendDisabled

\* the text in the input is empty after trimming or longer than 2000 characters
RejectedText ==
  \A t \in {Trim(textInp)} : t = <<>> \/ Len(t) > MAX_LEN

\* C24: a submit event that client-side validation rejects changes nothing but
\* the inline error message: no request is issued, localStorage is not written,
\* the send button stays enabled, the text input and the list are unchanged.
C24_RejectedSubmitOnlySetsError ==
  [][(Submit /\ RejectedText) =>
       /\ posts' = posts
       /\ lastPost' = lastPost
       /\ loads' = loads
       /\ nextLoad' = nextLoad
       /\ storage' = storage
       /\ sendDisabled' = FALSE
       /\ textInp' = textInp
       /\ nickInp' = nickInp
       /\ list' = list
       /\ cpc' = "idle"
       /\ errText' \in {"Wpisz tresc komentarza.", "Za dlugi komentarz."}]_vars

\* C24 witness: a text of 2001 characters was submitted and rejected; nothing
\* was posted or stored and the button is enabled.
C24_Witness ==
  /\ errText = "Za dlugi komentarz."
  /\ Len(Trim(textInp)) = MAX_LEN + 1
  /\ posts = 0
  /\ lastPost = NoPost
  /\ storage.br_uid = ""
  /\ ~sendDisabled
  /\ cpc = "idle"

\* C25: the device identifier is stable: once a value is stored under br_uid no
\* submit and no page load changes it, and every comment posted carries the
\* value that is stored.
C25_UidStable ==
  [][/\ storage.br_uid # "" => storage'.br_uid = storage.br_uid
     /\ posts' # posts => (storage'.br_uid # "" /\ lastPost'.uid = storage'.br_uid)]_vars

\* C25 witness: the device had no identifier; the first submit stored u2, the
\* page was loaded again (the nick input shows the saved nick), and the second
\* comment carries u2.
C25_Witness ==
  /\ posts = 2
  /\ cpc = "post"
  /\ nickInp = <<"A", "n", "n">>
  /\ storage.br_uid = "u2"
  /\ lastPost.uid = "u2"

\* the lists that show the rows of one GET response, in the response's order
OneResponseLists ==
  {[kind |-> "rows", rows |-> Map(o.rows, RowItem) \o <<>>] :
     o \in {g \in GetOutcomes : g.body = "rows" /\ g.rows # <<>>}}

\* C26: under every interleaving of outstanding GETs the list shows a
\* placeholder (loading, empty, error) or the rows of exactly one GET response
\* in that response's order, never rows of two responses.
C26_ListShowsOneResponse ==
  list \in {ListLoading, ListEmpty, ListError} \cup OneResponseLists

\* C26 witness: the reload after a submission completed first and the GET of
\* the mount completed last; the list shows the two rows of that last response.
C26_Witness ==
  /\ widget \in {"comments", "hotbarjs"}
  /\ loads = {}
  /\ nextLoad = 2
  /\ listBy = 1
  /\ list = ListRows(<<RowB, RowA>>)

\* the reloads the submit listener has started and that have not completed
SubmitReloads == {l \in loads : l.by = "submit"}

\* C27: the listener clears the text input only after a POST it accepted as a
\* success; each clearing comes with exactly one GET reload for the page of the
\* POST, issued after the POST completed and while the button is still
\* disabled, and the button is enabled again only when that reload has
\* finished; a failed submission issues no reload.
C27_ClearThenOneReload ==
  [][/\ (cpc # "idle" /\ textInp # <<>> /\ textInp' = <<>>) =>
          (cpc = "resp" /\ PostSucceeded(widget, postRes))
     /\ (cpc = "resp" /\ cpc' # "resp" /\ PostSucceeded(widget, postRes)) =>
          /\ textInp' = <<>>
          /\ \E l \in loads' \ loads :
               /\ loads' = loads \cup {l}
               /\ l.by = "submit"
               /\ l.page = lastPost.page
          /\ Cardinality(SubmitReloads') = 1
          /\ sendDisabled /\ sendDisabled'
     /\ (cpc = "resp" /\ cpc' # "resp" /\ ~PostSucceeded(widget, postRes)) =>
          (loads' = loads /\ textInp' = textInp)
     /\ ~(loads' \subseteq loads) => cpc = "resp"
     /\ (SubmitReloads # {} /\ ~sendDisabled') => SubmitReloads' = {}]_vars

\* C27 witness: a POST was accepted, the text input is empty, the one reload of
\* the submit listener is outstanding and the button is still disabled.
C27_Witness ==
  /\ posts = 1
  /\ cpc = "load"
  /\ textInp = <<>>
  /\ sendDisabled
  /\ SubmitReloads = {LoadRequest(2, "submit")}
  /\ lastPost.page = "page"

=============================================================================
